---- MODULE Spec2Model ----
(***************************************************************************)
(* A model of the FastAPI demo service: the credential module              *)
(* (app/core/security.py), the in-memory user store                        *)
(* (app/services/user_service.py), the in-memory item store                *)
(* (app/services/item_service.py), the auth dependencies (app/api/deps.py) *)
(* and the user endpoints (app/api/v1/endpoints/users.py).                 *)
(*                                                                         *)
(* Conventions.                                                            *)
(*   - Python None is NULL in atomic text fields, NoText in fields held as *)
(*     tuples of characters, and None (the empty tuple) where a number is  *)
(*     expected; a numeric value v is then Some(v) = <<v>>.                *)
(*   - Python bool fields are the strings "True" / "False", so that a      *)
(*     field of type Optional[bool] can also hold NULL.                    *)
(*   - Usernames, passwords and token subjects are tuples of one-character *)
(*     strings, so that lower(), isalnum(), len(), str() and int() are     *)
(*     computed and not assumed. Emails are atomic strings: the inputs are *)
(*     addresses EmailStr accepts, already normalised.                     *)
(*   - A dict is a function whose DOMAIN is the set of keys.               *)
(*   - Time is counted in half seconds; SecondsOf truncates to the whole   *)
(*     seconds a JWT "exp" claim carries.                                  *)
(***************************************************************************)
EXTENDS Integers, Sequences, FiniteSets, TLC

VARIABLES
    users,              \* UserService._users: id -> UserInDB
    user_by_email,      \* UserService._user_by_email: email -> id
    user_by_username,   \* UserService._user_by_username: username -> id
    next_id,            \* UserService._next_id
    items,              \* ItemService._items: id -> Item
    item_next_id,       \* ItemService._next_id
    now,                \* the clock read by datetime.utcnow(), in half seconds
    token,              \* the token last returned by create_access_token
    resp,               \* outcome of the last call (what the caller observes)
    tasks               \* the registration requests handled concurrently

vars == <<users, user_by_email, user_by_username, next_id,
          items, item_next_id, now, token, resp, tasks>>

userVars == <<users, user_by_email, user_by_username, next_id>>
itemVars == <<items, item_next_id>>

-----------------------------------------------------------------------------
(* Bounds of the model.                                                    *)

MaxUserId == 2          \* create_user is explored while next_id <= MaxUserId
MaxTasks == 2           \* registration requests in flight together
MaxItemId == 4          \* create_item is explored while item_next_id <= MaxItemId

-----------------------------------------------------------------------------
(* Python values.                                                          *)

NULL == "<None>"             \* None in an atomic text or bool field
NoText == <<"<None>">>       \* None in a field holding a tuple of characters
None == <<>>                 \* None where a number is expected
Some(v) == <<v>>

PyTrue == "True"
PyFalse == "False"
Bools == {PyTrue, PyFalse}

\* bool(x) of an Optional[bool] / Optional[str] value: None, False and "" are falsy.
Truthy(x) == x # NULL /\ x # PyFalse /\ x # ""

\* bool(x) of an Optional[str] value held as a tuple of characters
TruthyText(x) == x # NoText /\ Len(x) > 0

\* dict operations
Put(d, k, v) == [x \in (DOMAIN d) \cup {k} |-> IF x = k THEN v ELSE d[x]]
Del(d, k) == [x \in (DOMAIN d) \ {k} |-> d[x]]
EmptyDict == [x \in {} |-> NULL]

-----------------------------------------------------------------------------
(* Characters and text.                                                    *)

UpperChars == <<"A","B","C","D","E","F","G","H","I","J","K","L","M",
                "N","O","P","Q","R","S","T","U","V","W","X","Y","Z">>
LowerChars == <<"a","b","c","d","e","f","g","h","i","j","k","l","m",
                "n","o","p","q","r","s","t","u","v","w","x","y","z">>
DigitChars == <<"0","1","2","3","4","5","6","7","8","9">>

Range(s) == {s[i] : i \in DOMAIN s}

IsUpper(c) == c \in Range(UpperChars)
IsLower(c) == c \in Range(LowerChars)
IsDigit(c) == c \in Range(DigitChars)

\* str.lower() on one character
LowerChar(c) ==
    IF IsUpper(c)
    THEN LowerChars[CHOOSE i \in DOMAIN UpperChars : UpperChars[i] = c]
    ELSE c

\* str.lower()
Lower(s) == [i \in DOMAIN s |-> LowerChar(s[i])]

Whitespace == {" ", "\t", "\n"}

\* str.strip()
RECURSIVE LStrip(_)
LStrip(v) == IF Len(v) > 0 /\ Head(v) \in Whitespace THEN LStrip(Tail(v)) ELSE v

RECURSIVE RStrip(_)
RStrip(v) ==
    IF Len(v) > 0 /\ v[Len(v)] \in Whitespace
    THEN RStrip(SubSeq(v, 1, Len(v) - 1))
    ELSE v

Strip(v) == RStrip(LStrip(v))

\* str.isalnum(): non-empty and every character a letter or a digit
IsAlnum(s) ==
    /\ Len(s) > 0
    /\ \A i \in DOMAIN s : IsUpper(s[i]) \/ IsLower(s[i]) \/ IsDigit(s[i])

-----------------------------------------------------------------------------
(* app/core/config.py                                                      *)

ACCESS_TOKEN_EXPIRE_MINUTES == 30
SECRET_KEY == "settings.secret_key"
ALGORITHM == "HS256"

-----------------------------------------------------------------------------
(* app/core/security.py: password hashing.  A bcrypt hash embeds its salt   *)
(* and a digest that only the hashed password reproduces.                   *)

Salts == {"salt1"}

get_password_hash(password, salt) ==
    [scheme |-> "bcrypt", salt |-> salt, digest |-> password]

verify_password(plain_password, hashed_password) ==
    hashed_password.digest = plain_password

-----------------------------------------------------------------------------
(* app/core/security.py: tokens.  A token is what jwt.encode signs: the key *)
(* and algorithm it was signed with and its claims, or a string that is no  *)
(* JWT at all.  The "exp" claim is a whole number of seconds.               *)

SecondsOf(t) == t \div 2
Minutes(m) == m * 60 * 2

\* str(n) of an int
RECURSIVE DigitsOf(_)
DigitsOf(n) ==
    IF n < 10 THEN <<DigitChars[n + 1]>>
    ELSE Append(DigitsOf(n \div 10), DigitChars[(n % 10) + 1])

IntToStr(n) == IF n < 0 THEN <<"-">> \o DigitsOf(-n) ELSE DigitsOf(n)

\* the subject argument: an int or a str
IntSubject(n) == [type |-> "int", n |-> n, s |-> NoText]
StrSubject(s) == [type |-> "str", n |-> 0, s |-> s]

str(subject) == IF subject.type = "int" THEN IntToStr(subject.n) ELSE subject.s

DigitValue(c) == (CHOOSE i \in DOMAIN DigitChars : DigitChars[i] = c) - 1

RECURSIVE ValueOfDigits(_)
ValueOfDigits(v) ==
    IF Len(v) = 0 THEN 0
    ELSE ValueOfDigits(SubSeq(v, 1, Len(v) - 1)) * 10 + DigitValue(v[Len(v)])

AllDigits(v) == Len(v) > 0 /\ \A i \in DOMAIN v : IsDigit(v[i])

\* int(s): surrounding whitespace and one sign are accepted; None stands for
\* ValueError
int(s) ==
    LET v == Strip(s)
        signed == Len(v) > 0 /\ v[1] \in {"+", "-"}
        digits == IF signed THEN Tail(v) ELSE v
    IN  IF ~AllDigits(digits) THEN None
        ELSE IF signed /\ v[1] = "-" THEN Some(-ValueOfDigits(digits))
        ELSE Some(ValueOfDigits(digits))

NotAJwt == [jwt |-> FALSE, key |-> "", alg |-> "", sub |-> NoText, exp |-> None]

\* jwt.encode(to_encode, key, algorithm): a datetime "exp" becomes whole seconds
jwt_encode(sub, expire, key, alg) ==
    [jwt |-> TRUE, key |-> key, alg |-> alg, sub |-> sub, exp |-> Some(SecondsOf(expire))]

\* timedelta.__bool__: None and timedelta(0) are falsy
delta_truthy(expires_delta) == expires_delta # None /\ expires_delta[1] # 0

\* create_access_token at clock reading t; expires_delta is None or Some(d)
create_access_token(subject, expires_delta, t) ==
    LET expire == IF delta_truthy(expires_delta)
                  THEN t + expires_delta[1]
                  ELSE t + Minutes(ACCESS_TOKEN_EXPIRE_MINUTES)
    IN  jwt_encode(str(subject), expire, SECRET_KEY, ALGORITHM)

\* jwt.decode with the "exp" claim not looked at
jwt_decode_ignoring_exp(tok, key, algorithms, t) ==
    \/ ~tok.jwt
    \/ tok.alg \notin algorithms
    \/ tok.key # key

\* jwt.decode(token, key, algorithms) raises JWTError
jwt_decode_fails(tok, key, algorithms, t) ==
    \/ ~tok.jwt
    \/ tok.alg \notin algorithms
    \/ tok.key # key
    \/ tok.exp # None /\ tok.exp[1] < SecondsOf(t)

\* verify_token at clock reading t: the subject, or NoText for None
verify_token(tok, t) ==
    IF jwt_decode_fails(tok, SECRET_KEY, {ALGORITHM}, t) THEN NoText
    ELSE tok.sub

-----------------------------------------------------------------------------
(* What a call gives back to its caller.                                   *)

Return(v) == [kind |-> "return", status |-> 0, detail |-> "", value |-> v]
HTTPException(status, detail) ==
    [kind |-> "HTTPException", status |-> status, detail |-> detail, value |-> None]
KeyError == [kind |-> "KeyError", status |-> 0, detail |-> "", value |-> None]
ValidationError ==
    [kind |-> "ValidationError", status |-> 0, detail |-> "", value |-> None]

-----------------------------------------------------------------------------
(* app/schemas/user.py                                                     *)

\* UserCreate.validate_password
validate_password(v) ==
    /\ Len(v) >= 8
    /\ \E i \in DOMAIN v : IsUpper(v[i])
    /\ \E i \in DOMAIN v : IsLower(v[i])
    /\ \E i \in DOMAIN v : IsDigit(v[i])

\* UserCreate.validate_username: whether the value is accepted
username_ok(v) == Len(v) >= 3 /\ IsAlnum(v)

\* UserCreate(**data): the validated object, or ValidationError
UserCreateAccepts(data) == validate_password(data.password) /\ username_ok(data.username)

UserCreate(data) == [data EXCEPT !.username = Lower(data.username)]

\* A UserUpdate or ItemUpdate object carries fields_set, the fields the request
\* body named (model_fields_set); a field the body did not name reads as its
\* default, None.  dict(exclude_unset=True) is the object restricted to
\* fields_set.

\* UserUpdate.validate_username: None passes through, a value is checked
UserUpdateAccepts(data) == data.username = NoText \/ username_ok(data.username)

UserUpdate(data) ==
    IF data.username = NoText THEN data
    ELSE [data EXCEPT !.username = Lower(data.username)]

-----------------------------------------------------------------------------
(* app/services/user_service.py.  Each operation maps a store              *)
(* S = [users, by_email, by_username, next_id] to the store it leaves and  *)
(* the result it gives: [S |-> ..., res |-> ...].  An exception raised     *)
(* part-way leaves the assignments made before it.                         *)

Out(S, res) == [S |-> S, res |-> res]

\* create_user with self._next_id left as it was
create_user_keeping_next_id(S, user_create, t, salt) ==
    IF user_create.email \in DOMAIN S.by_email
    THEN Out(S, HTTPException(400, "Email already registered"))
    ELSE IF user_create.username \in DOMAIN S.by_username
    THEN Out(S, HTTPException(400, "Username already taken"))
    ELSE
      LET user_id == S.next_id
          user == [id |-> user_id,
                   email |-> user_create.email,
                   username |-> user_create.username,
                   full_name |-> user_create.full_name,
                   hashed_password |-> get_password_hash(user_create.password, salt),
                   is_active |-> user_create.is_active,
                   is_superuser |-> user_create.is_superuser,
                   created_at |-> t,
                   updated_at |-> t]
      IN Out([users |-> Put(S.users, user_id, user),
              by_email |-> Put(S.by_email, user_create.email, user_id),
              by_username |-> Put(S.by_username, user_create.username, user_id),
              next_id |-> S.next_id],
             Return(Some(user_id)))

\* UserService.create_user
create_user(S, user_create, t, salt) ==
    IF user_create.email \in DOMAIN S.by_email
    THEN Out(S, HTTPException(400, "Email already registered"))
    ELSE IF user_create.username \in DOMAIN S.by_username
    THEN Out(S, HTTPException(400, "Username already taken"))
    ELSE
      LET user_id == S.next_id
          user == [id |-> user_id,
                   email |-> user_create.email,
                   username |-> user_create.username,
                   full_name |-> user_create.full_name,
                   hashed_password |-> get_password_hash(user_create.password, salt),
                   is_active |-> user_create.is_active,
                   is_superuser |-> user_create.is_superuser,
                   created_at |-> t,
                   updated_at |-> t]
      IN Out([users |-> Put(S.users, user_id, user),
              by_email |-> Put(S.by_email, user_create.email, user_id),
              by_username |-> Put(S.by_username, user_create.username, user_id),
              next_id |-> user_id + 1],
             Return(Some(user_id)))

\* UserService.get_user_by_id: the id of the user found, or None
get_user_by_id(S, user_id) ==
    IF user_id \in DOMAIN S.users THEN Some(user_id) ELSE None

\* UserService.get_user_by_email
get_user_by_email(S, email) ==
    IF email \in DOMAIN S.by_email /\ S.by_email[email] # 0
    THEN get_user_by_id(S, S.by_email[email])
    ELSE None

\* UserService.get_user_by_username
get_user_by_username(S, username) ==
    IF username \in DOMAIN S.by_username /\ S.by_username[username] # 0
    THEN get_user_by_id(S, S.by_username[username])
    ELSE None

\* authenticate_user without its is_active test
authenticate_user_inactive_too(S, username, password) ==
    LET found == get_user_by_username(S, username) IN
    IF found = None THEN None
    ELSE IF ~verify_password(password, S.users[found[1]].hashed_password) THEN None
    ELSE found

\* UserService.authenticate_user: the id of the authenticated user, or None
authenticate_user(S, username, password) ==
    LET found == get_user_by_username(S, username) IN
    IF found = None THEN None
    ELSE IF ~verify_password(password, S.users[found[1]].hashed_password) THEN None
    ELSE IF ~Truthy(S.users[found[1]].is_active) THEN None
    ELSE found

\* the setattr loop run over every field of the patch, the omitted ones too
apply_update_resetting_omitted(user, p, t) ==
    [f \in DOMAIN user |->
        IF f = "updated_at" THEN t
        ELSE IF f \in {"email", "username", "full_name", "is_active", "is_superuser"}
        THEN p[f]
        ELSE user[f]]

\* the setattr loop of update_user
apply_update(user, p, t) ==
    [f \in DOMAIN user |->
        IF f = "updated_at" THEN t
        ELSE IF f \in p.fields_set THEN p[f]
        ELSE user[f]]

\* UserService.update_user
update_user(S, user_id, p, t) ==
    IF user_id \notin DOMAIN S.users THEN Out(S, Return(None))
    ELSE
      LET user == S.users[user_id]
          email_changes == Truthy(p.email) /\ p.email # user.email
          username_changes == TruthyText(p.username) /\ p.username # user.username
          by_email1 ==
              IF email_changes
              THEN Put(Del(S.by_email, user.email), p.email, user_id)
              ELSE S.by_email
          by_username1 ==
              IF username_changes
              THEN Put(Del(S.by_username, user.username), p.username, user_id)
              ELSE S.by_username
      IN
      IF email_changes /\ p.email \in DOMAIN S.by_email
      THEN Out(S, HTTPException(400, "Email already registered"))
      ELSE IF username_changes /\ p.username \in DOMAIN S.by_username
      THEN Out(S, HTTPException(400, "Username already taken"))
      ELSE IF p.fields_set = {} THEN Out(S, Return(Some(user_id)))
      ELSE IF email_changes /\ user.email \notin DOMAIN S.by_email
      THEN Out(S, KeyError)                        \* del self._user_by_email[user.email]
      ELSE IF username_changes /\ user.username \notin DOMAIN S.by_username
      THEN Out([S EXCEPT !.by_email = by_email1], KeyError)
                                                   \* del self._user_by_username[...]
      ELSE Out([S EXCEPT !.users = Put(S.users, user_id, apply_update(user, p, t)),
                         !.by_email = by_email1,
                         !.by_username = by_username1],
               Return(Some(user_id)))

\* delete_user handing the deleted id back to the counter
delete_user_releasing_id(S, user_id) ==
    IF user_id \notin DOMAIN S.users THEN Out(S, Return(Some(0)))
    ELSE
      LET user == S.users[user_id]
      IN  Out([users |-> Del(S.users, user_id),
               by_email |-> Del(S.by_email, user.email),
               by_username |-> Del(S.by_username, user.username),
               next_id |-> user_id],
              Return(Some(1)))

\* UserService.delete_user: True is Some(1), False is Some(0)
delete_user(S, user_id) ==
    IF user_id \notin DOMAIN S.users THEN Out(S, Return(Some(0)))
    ELSE
      LET user == S.users[user_id]
          S1 == [S EXCEPT !.users = Del(S.users, user_id)]
          S2 == [S1 EXCEPT !.by_email = Del(S.by_email, user.email)]
          S3 == [S2 EXCEPT !.by_username = Del(S.by_username, user.username)]
      IN
      IF user.email \notin DOMAIN S.by_email THEN Out(S1, KeyError)
      ELSE IF user.username \notin DOMAIN S.by_username THEN Out(S2, KeyError)
      ELSE Out(S3, Return(Some(1)))

-----------------------------------------------------------------------------
(* app/models/item.py and app/schemas/item.py.  A price is a number of     *)
(* thousandths: 19.999 is 19999.                                           *)

ItemStatus == {"active", "inactive", "archived"}

\* The prices among the request values that end in 5 thousandths and whose
\* nearest double lies below the decimal written (0.015 is 0.01499999...).
DoubleBelowDecimal == {15, 995, 1005, 2675}

\* round(v, 2) of a positive double: to the nearest hundredth of the double's
\* exact value, an exact tie (a multiple of 1/8) to the even hundredth
round2(m) ==
    LET q == m \div 10
        r == m % 10
    IN  IF r < 5 THEN q * 10
        ELSE IF r > 5 THEN (q + 1) * 10
        ELSE IF m % 125 = 0 THEN (IF q % 2 = 0 THEN q ELSE q + 1) * 10
        ELSE IF m \in DoubleBelowDecimal THEN q * 10
        ELSE (q + 1) * 10

\* ItemBase.price_must_be_positive / Item.price_must_be_positive: v <= 0 raises
price_rejected(v) == v[1] <= 0

\* ItemBase.title_must_not_be_empty / Item.title_must_not_be_empty:
\* "not v or not v.strip()" raises
title_rejected(v) == Len(v) = 0 \/ Len(Strip(v)) = 0

\* ItemCreate(**data)
ItemCreateAccepts(data) == ~title_rejected(data.title) /\ ~price_rejected(data.price)

ItemCreate(data) ==
    [data EXCEPT !.title = Strip(data.title), !.price = Some(round2(data.price[1]))]

\* ItemUpdate(**data): None passes both validators
ItemUpdateAccepts(data) ==
    /\ data.price = None \/ ~price_rejected(data.price)
    /\ data.title = NoText \/ ~title_rejected(data.title)

ItemUpdate(data) ==
    [data EXCEPT
       !.title = IF data.title = NoText THEN NoText ELSE Strip(data.title),
       !.price = IF data.price = None THEN None ELSE Some(round2(data.price[1]))]

\* Item(**fields): the model's own validators run when an Item is constructed
\* (not when a field is assigned later: validate_assignment is off)
ItemAccepts(fields) == ~price_rejected(fields.price) /\ ~title_rejected(fields.title)

-----------------------------------------------------------------------------
(* app/services/item_service.py.  IS = [items, next_id].                   *)

\* ItemService._create_item_internal
create_item(IS, item_create, owner_id, t) ==
    LET item_id == IS.next_id
        IS1 == [IS EXCEPT !.next_id = item_id + 1]
        item == [id |-> item_id,
                 title |-> Strip(item_create.title),
                 description |-> item_create.description,
                 price |-> item_create.price,
                 status |-> item_create.status,
                 owner_id |-> owner_id,
                 created_at |-> t,
                 updated_at |-> t]
    IN  IF ~ItemAccepts(item_create)
        THEN Out(IS1, ValidationError)       \* Item(...) raises after the id is taken
        ELSE Out([IS1 EXCEPT !.items = Put(IS.items, item_id, item)],
                 Return(Some(item_id)))

\* ItemService.get_item_by_id
get_item_by_id(IS, item_id) ==
    IF item_id \in DOMAIN IS.items THEN Some(item_id) ELSE None

\* the ownership test with user 1, the seeded superuser, let through
not_owner_unless_admin(item, user_id) == item.owner_id # user_id /\ user_id # 1

\* the ownership test of update_item and delete_item
not_owner(item, user_id) == item.owner_id # user_id

\* the setattr loop of update_item, stamping created_at as well
apply_item_update_restamping(item, p, t) ==
    [f \in DOMAIN item |->
        IF f \in {"created_at", "updated_at"} THEN t
        ELSE IF f \in p.fields_set THEN p[f]
        ELSE item[f]]

\* the setattr loop of update_item
apply_item_update(item, p, t) ==
    [f \in DOMAIN item |->
        IF f = "updated_at" THEN t
        ELSE IF f \in p.fields_set THEN p[f]
        ELSE item[f]]

\* ItemService.update_item
update_item(IS, item_id, p, user_id, t) ==
    IF item_id \notin DOMAIN IS.items THEN Out(IS, Return(None))
    ELSE IF not_owner(IS.items[item_id], user_id)
    THEN Out(IS, HTTPException(403, "Not enough permissions to update this item"))
    ELSE IF p.fields_set = {} THEN Out(IS, Return(Some(item_id)))
    ELSE Out([IS EXCEPT !.items =
                 Put(IS.items, item_id, apply_item_update(IS.items[item_id], p, t))],
             Return(Some(item_id)))

\* delete_item without its ownership test
delete_item_by_anyone(IS, item_id, user_id) ==
    IF item_id \notin DOMAIN IS.items THEN Out(IS, Return(Some(0)))
    ELSE Out([IS EXCEPT !.items = Del(IS.items, item_id)], Return(Some(1)))

\* ItemService.delete_item: True is Some(1), False is Some(0)
delete_item(IS, item_id, user_id) ==
    IF item_id \notin DOMAIN IS.items THEN Out(IS, Return(Some(0)))
    ELSE IF not_owner(IS.items[item_id], user_id)
    THEN Out(IS, HTTPException(403, "Not enough permissions to delete this item"))
    ELSE Out([IS EXCEPT !.items = Del(IS.items, item_id)], Return(Some(1)))

\* list(self._items.values()): the ids in insertion order; ids are handed out
\* in increasing order and a dict keeps insertion order
RECURSIVE values_order(_)
values_order(ids) ==
    IF ids = {} THEN <<>>
    ELSE LET m == CHOOSE x \in ids : \A y \in ids : x <= y
         IN  <<m>> \o values_order(ids \ {m})

\* the list left in insertion order
sort_created_desc_unsorted(IS, seq) == seq

\* list.sort(key=created_at, reverse=True): stable, equal keys keep their order
RECURSIVE sort_created_desc(_, _)
sort_created_desc(IS, seq) ==
    IF seq = <<>> THEN <<>>
    ELSE LET first == CHOOSE i \in DOMAIN seq :
                        /\ \A j \in DOMAIN seq :
                              IS.items[seq[j]].created_at <= IS.items[seq[i]].created_at
                        /\ \A j \in 1..(i - 1) :
                              IS.items[seq[j]].created_at < IS.items[seq[i]].created_at
             rest == [k \in 1..(Len(seq) - 1) |-> IF k < first THEN seq[k] ELSE seq[k + 1]]
         IN  <<seq[first]>> \o sort_created_desc(IS, rest)

\* seq[skip:skip + limit]
Slice(seq, skip, limit) ==
    LET lo == IF skip < Len(seq) THEN skip ELSE Len(seq)
        hi == IF skip + limit < Len(seq) THEN skip + limit ELSE Len(seq)
    IN  SubSeq(seq, lo + 1, hi)

\* the two filters of get_items and get_item_count: "if status:", "if owner_id:"
filtered(IS, status, owner_id) ==
    LET keep(id) ==
          /\ status # NULL => IS.items[id].status = status
          /\ (owner_id # None /\ owner_id[1] # 0) => IS.items[id].owner_id = owner_id[1]
    IN  SelectSeq(values_order(DOMAIN IS.items), keep)

\* ItemService.get_items: the ids of the page
get_items(IS, skip, limit, status, owner_id) ==
    Slice(sort_created_desc(IS, filtered(IS, status, owner_id)), skip, limit)

\* ItemService.get_item_count
get_item_count(IS, status, owner_id) == Len(filtered(IS, status, owner_id))

\* ItemService._create_sample_items
SampleItems ==
    << [title |-> <<"P","r","e","m","i","u","m"," ","H","e","a","d","p","h","o","n","e","s">>,
        description |-> "High-quality wireless headphones with noise cancellation",
        price |-> Some(199990), status |-> "active"],
       [title |-> <<"S","m","a","r","t"," ","W","a","t","c","h">>,
        description |-> "Feature-rich smartwatch with fitness tracking",
        price |-> Some(299990), status |-> "active"],
       [title |-> <<"B","l","u","e","t","o","o","t","h"," ","S","p","e","a","k","e","r">>,
        description |-> "Portable Bluetooth speaker with excellent sound quality",
        price |-> Some(79990), status |-> "inactive"] >>

RECURSIVE create_sample_items(_, _)
create_sample_items(IS, n) ==
    IF n > Len(SampleItems) THEN IS
    ELSE create_sample_items(create_item(IS, ItemCreate(SampleItems[n]), 1, 0).S, n + 1)

-----------------------------------------------------------------------------
(* The values requests are drawn from.                                     *)

AdminEmail == "admin@example.com"
TestEmail == "test@example.com"
Emails == {AdminEmail, TestEmail}

AdminUsername == <<"a","d","m","i","n">>
TestUsername == <<"b","o","b">>
MixedCaseUsername == <<"B","o","b">>
ShortUsername == <<"a","b">>
RawUsernames == {AdminUsername, TestUsername, MixedCaseUsername, ShortUsername}

AdminPassword == <<"A","d","m","i","n","P","a","s","s","1","2","3">>
TestPassword == <<"T","e","s","t","P","a","s","s","1","2","3">>
WeakPassword == <<"1","2","3">>
Passwords == {AdminPassword, TestPassword, WeakPassword}

\* Registration bodies: is_superuser is left at its default.
UserCreateData ==
    [email : Emails, username : RawUsernames, full_name : {"Test User"},
     password : {TestPassword, WeakPassword}, is_active : Bools,
     is_superuser : {PyFalse}]

\* Update bodies of the user store specification: the indexed fields and
\* is_active each omitted, null or set; the other fields omitted.
UserUpdateData ==
    {p \in [fields_set : SUBSET {"email", "username", "is_active"},
            email : {NULL} \cup Emails,
            username : {NoText} \cup RawUsernames,
            full_name : {NULL},
            is_active : {NULL} \cup Bools,
            is_superuser : {NULL}] :
        /\ "email" \notin p.fields_set => p.email = NULL
        /\ "username" \notin p.fields_set => p.username = NoText
        /\ "is_active" \notin p.fields_set => p.is_active = NULL}

UserIds == 1..(MaxUserId + 1)

-----------------------------------------------------------------------------
(* The state after construction.                                           *)

UserStore == [users |-> users, by_email |-> user_by_email,
              by_username |-> user_by_username, next_id |-> next_id]

\* UserService.__init__ seeds the admin through _create_user_sync
InitUserStore(salt) ==
    create_user([users |-> EmptyDict, by_email |-> EmptyDict,
                 by_username |-> EmptyDict, next_id |-> 1],
                [email |-> AdminEmail, username |-> AdminUsername,
                 full_name |-> "System Administrator", password |-> AdminPassword,
                 is_active |-> PyTrue, is_superuser |-> PyTrue],
                0, salt).S

\* token before any token is issued
NoToken == [jwt |-> NotAJwt, subject |-> StrSubject(NoText),
            expires_delta |-> None, issued_at |-> 0]

\* resp while no call is being answered
NoCall == [op |-> "none", arg |-> None, res |-> Return(None)]
Call(op, arg, res) == [op |-> op, arg |-> arg, res |-> res]

Init ==
    /\ \E salt \in Salts :
         LET S == InitUserStore(salt) IN
           /\ users = S.users
           /\ user_by_email = S.by_email
           /\ user_by_username = S.by_username
           /\ next_id = S.next_id
    /\ LET IS == create_sample_items([items |-> EmptyDict, next_id |-> 1], 1) IN
         /\ items = IS.items
         /\ item_next_id = IS.next_id
    /\ now = 0
    /\ token = NoToken
    /\ resp = NoCall
    /\ tasks = [t \in 1..MaxTasks |->
                  [pc |-> "request", suspended |-> TRUE,
                   data |-> [email |-> NULL, username |-> NoText, full_name |-> NULL,
                             password |-> NoText, is_active |-> NULL,
                             is_superuser |-> NULL],
                   user_id |-> None, res |-> Return(None)]]

SetUserStore(S) ==
    /\ users' = S.users
    /\ user_by_email' = S.by_email
    /\ user_by_username' = S.by_username
    /\ next_id' = S.next_id

\* The caller takes the answer; requests are dispatched one at a time.
Deliver ==
    /\ resp # NoCall
    /\ resp' = NoCall
    /\ UNCHANGED <<userVars, itemVars, now, token, tasks>>

-----------------------------------------------------------------------------
(* Calls on the user store.                                                *)

CreateUser(data, salt) ==
    /\ resp = NoCall
    /\ next_id <= MaxUserId
    /\ IF ~UserCreateAccepts(data)
       THEN /\ resp' = Call("create_user", [data |-> data], ValidationError)
            /\ UNCHANGED userVars
       ELSE LET out == create_user(UserStore, UserCreate(data), now, salt) IN
            /\ SetUserStore(out.S)
            /\ resp' = Call("create_user", [data |-> data], out.res)
    /\ UNCHANGED <<itemVars, now, token, tasks>>

UpdateUser(user_id, data) ==
    /\ resp = NoCall
    /\ IF ~UserUpdateAccepts(data)
       THEN /\ resp' = Call("update_user", [user_id |-> user_id, data |-> data],
                            ValidationError)
            /\ UNCHANGED userVars
       ELSE LET out == update_user(UserStore, user_id, UserUpdate(data), now) IN
            /\ SetUserStore(out.S)
            /\ resp' = Call("update_user", [user_id |-> user_id, data |-> data], out.res)
    /\ UNCHANGED <<itemVars, now, token, tasks>>

DeleteUser(user_id) ==
    /\ resp = NoCall
    /\ LET out == delete_user(UserStore, user_id) IN
         /\ SetUserStore(out.S)
         /\ resp' = Call("delete_user", Some(user_id), out.res)
    /\ UNCHANGED <<itemVars, now, token, tasks>>

AuthenticateUser(username, password) ==
    /\ resp = NoCall
    /\ resp' = Call("authenticate_user",
                    [username |-> username, password |-> password],
                    Return(authenticate_user(UserStore, username, password)))
    /\ UNCHANGED <<userVars, itemVars, now, token, tasks>>

NextUsers ==
    \/ \E data \in UserCreateData, salt \in Salts : CreateUser(data, salt)
    \/ \E user_id \in UserIds, data \in UserUpdateData : UpdateUser(user_id, data)
    \/ \E user_id \in UserIds : DeleteUser(user_id)
    \/ \E username \in RawUsernames, password \in Passwords :
         AuthenticateUser(username, password)
    \/ Deliver

SpecUsers == Init /\ [][NextUsers]_vars

-----------------------------------------------------------------------------
(* Claims about the user store.                                            *)

Live == DOMAIN users

\* C1: in every reachable state of the user store, no two live user records
\* have the same email and no two live user records have the same username
\* (two records that both hold None are not counted as holding the same value).
C1_UniqueEmailAndUsername ==
    \A i \in Live, j \in Live :
        i # j =>
          /\ ~(users[i].email = users[j].email /\ users[i].email # NULL)
          /\ ~(users[i].username = users[j].username /\ users[i].username # NoText)

\* C1, the case reached: two live users.
C1_TwoLiveUsers == Cardinality(Live) >= 2

\* C2: in every reachable state the email index and the username index hold
\* exactly one entry per live user, keyed by that user's current email /
\* username and mapping to that user's id, and no entry for an id that is not
\* live.
C2_IndexesMatchLiveUsers ==
    /\ \A id \in Live :
          /\ users[id].email \in DOMAIN user_by_email
          /\ user_by_email[users[id].email] = id
          /\ users[id].username \in DOMAIN user_by_username
          /\ user_by_username[users[id].username] = id
    /\ \A e \in DOMAIN user_by_email :
          user_by_email[e] \in Live /\ users[user_by_email[e]].email = e
    /\ \A u \in DOMAIN user_by_username :
          user_by_username[u] \in Live /\ users[user_by_username[u]].username = u

\* C2, the case named in particular: delete_user on a live user has removed
\* the primary record and an index still holds an entry for that id.
C2_DeleteLeftIndexEntry ==
    /\ resp.op = "delete_user"
    /\ resp.arg[1] \notin Live
    /\ \/ \E e \in DOMAIN user_by_email : user_by_email[e] = resp.arg[1]
       \/ \E u \in DOMAIN user_by_username : user_by_username[u] = resp.arg[1]

\* C2, second part: delete_user never removes the primary record while
\* leaving either index entry behind.
C2_DeleteRemovesIndexEntries == ~C2_DeleteLeftIndexEntry

\* a live user holds exactly this username, the password matches that user's
\* stored hash, and that user is active
CredentialsHold(username, password) ==
    \E id \in Live :
        /\ users[id].username = username
        /\ verify_password(password, users[id].hashed_password)
        /\ users[id].is_active = PyTrue

\* C5: authenticate_user(username, password) returns a user if and only if a
\* live user with exactly that username exists, the password matches that
\* user's stored hash and that user's is_active is true; otherwise it returns
\* none.
C5_AuthenticateIff ==
    resp.op = "authenticate_user" =>
        (resp.res.value # None <=> CredentialsHold(resp.arg.username, resp.arg.password))

\* C5, one direction that the store keeps: a live, active user whose record
\* holds the username and whose hash the password matches is authenticated.
C5_AuthenticateIf ==
    resp.op = "authenticate_user" =>
        (CredentialsHold(resp.arg.username, resp.arg.password) => resp.res.value # None)

\* C5, the case reached: authenticate_user returned a user.
C5_Authenticated == resp.op = "authenticate_user" /\ resp.res.value # None

-----------------------------------------------------------------------------
(* Calls on the item store.                                                *)

ItemStore == [items |-> items, next_id |-> item_next_id]

SetItemStore(IS) ==
    /\ items' = IS.items
    /\ item_next_id' = IS.next_id

PaddedTitle == <<" ","M","u","g"," ">>
BlankTitle == <<" ", " ">>
EmptyTitle == <<>>

\* 0.001 (which rounds to 0.0), 19.999 and the rejected -10.0
Prices == {1, 19999, -10000}

\* Creation bodies
ItemCreateData ==
    [title : {PaddedTitle, BlankTitle, EmptyTitle}, description : {NULL},
     price : {Some(v) : v \in Prices}, status : {"active"}]

\* Update bodies: title, price and status each omitted, null or set
ItemUpdateData ==
    {p \in [fields_set : SUBSET {"title", "price", "status"},
            title : {NoText, PaddedTitle, BlankTitle},
            description : {NULL},
            price : {None} \cup {Some(v) : v \in Prices},
            status : {NULL, "archived"}] :
        /\ "title" \notin p.fields_set => p.title = NoText
        /\ "price" \notin p.fields_set => p.price = None
        /\ "status" \notin p.fields_set => p.status = NULL}

\* The items addressed: a sample item, the first item created after
\* construction, and an id that is never assigned.
ItemIds == {3, 4, 99}

\* The acting users: the seeded admin (a superuser) and another user
ActingUserIds == {1, 2}

CreateItem(data, owner_id) ==
    /\ resp = NoCall
    /\ item_next_id <= MaxItemId
    /\ IF ~ItemCreateAccepts(data)
       THEN /\ resp' = Call("create_item", [user_id |-> owner_id, data |-> data],
                            ValidationError)
            /\ UNCHANGED itemVars
       ELSE LET out == create_item(ItemStore, ItemCreate(data), owner_id, now) IN
            /\ SetItemStore(out.S)
            /\ resp' = Call("create_item", [user_id |-> owner_id, data |-> data], out.res)
    /\ UNCHANGED <<userVars, now, token, tasks>>

UpdateItem(item_id, data, user_id) ==
    /\ resp = NoCall
    /\ IF ~ItemUpdateAccepts(data)
       THEN /\ resp' = Call("update_item", [item_id |-> item_id, user_id |-> user_id],
                            ValidationError)
            /\ UNCHANGED itemVars
       ELSE LET out == update_item(ItemStore, item_id, ItemUpdate(data), user_id, now) IN
            /\ SetItemStore(out.S)
            /\ resp' = Call("update_item", [item_id |-> item_id, user_id |-> user_id],
                            out.res)
    /\ UNCHANGED <<userVars, now, token, tasks>>

DeleteItem(item_id, user_id) ==
    /\ resp = NoCall
    /\ LET out == delete_item(ItemStore, item_id, user_id) IN
         /\ SetItemStore(out.S)
         /\ resp' = Call("delete_item", [item_id |-> item_id, user_id |-> user_id],
                         out.res)
    /\ UNCHANGED <<userVars, now, token, tasks>>

NextItems ==
    \/ \E data \in ItemCreateData, owner_id \in ActingUserIds : CreateItem(data, owner_id)
    \/ \E item_id \in ItemIds, data \in ItemUpdateData, user_id \in ActingUserIds :
         UpdateItem(item_id, data, user_id)
    \/ \E item_id \in ItemIds, user_id \in ActingUserIds : DeleteItem(item_id, user_id)
    \/ Deliver

SpecItems == Init /\ [][NextItems]_vars

-----------------------------------------------------------------------------
(* Claims about the item store.                                            *)

\* C3: in every state reachable by item creations and owner updates, every
\* stored item has price > 0 and a title that is non-empty after trimming
\* whitespace.
C3_PricePositiveTitleNonEmpty ==
    \A id \in DOMAIN items :
        /\ items[id].price # None
        /\ items[id].price[1] > 0
        /\ items[id].title # NoText
        /\ Len(Strip(items[id].title)) > 0

\* C3, the case reached: the owner's update of an item succeeded.
C3_OwnerUpdated ==
    /\ resp.op = "update_item"
    /\ resp.res.value # None
    /\ resp.arg.item_id \in DOMAIN items
    /\ items[resp.arg.item_id].owner_id = resp.arg.user_id

\* the call was refused with 403
Forbidden(r) == r.kind = "HTTPException" /\ r.status = 403

-----------------------------------------------------------------------------
(* Calls on the credential module.                                         *)

MaxClock == 4           \* the clock advances while now < MaxClock

\* tokens nobody issued with the signing secret
ForeignTokens ==
    {NotAJwt,
     jwt_encode(<<"1">>, Minutes(ACCESS_TOKEN_EXPIRE_MINUTES), "another key", ALGORITHM),
     jwt_encode(<<"1">>, Minutes(ACCESS_TOKEN_EXPIRE_MINUTES), SECRET_KEY, "none")}

Advance ==
    /\ resp = NoCall
    /\ now < MaxClock
    /\ now' = now + 1
    /\ UNCHANGED <<userVars, itemVars, token, resp, tasks>>

IssueToken(subject, expires_delta) ==
    /\ resp = NoCall
    /\ token' = [jwt |-> create_access_token(subject, expires_delta, now),
                 subject |-> subject, expires_delta |-> expires_delta,
                 issued_at |-> now]
    /\ resp' = Call("create_access_token", None, Return(None))
    /\ UNCHANGED <<userVars, itemVars, now, tasks>>

VerifyToken(tok) ==
    /\ resp = NoCall
    /\ resp' = Call("verify_token", [token |-> tok], Return(verify_token(tok, now)))
    /\ UNCHANGED <<userVars, itemVars, now, token, tasks>>

NextToken ==
    \/ Advance
    \* lifetimes in half seconds: omitted, zero, negative, and positive ones
    \/ \E subject \in {IntSubject(1), IntSubject(20), StrSubject(<<"a","b","c">>)},
          expires_delta \in {None, Some(0), Some(-2), Some(1), Some(2), Some(4)} :
         IssueToken(subject, expires_delta)
    \/ \E tok \in ForeignTokens \cup {token.jwt} : VerifyToken(tok)
    \/ Deliver

SpecToken == Init /\ [][NextToken]_vars

-----------------------------------------------------------------------------
(* Claims about the credential module.                                     *)

\* C6: verify_token applied to the token returned by
\* create_access_token(subject, ttl) returns the stringified subject at every
\* time strictly before issue time + ttl and none at every time after it, and
\* verify_token returns none for any token not issued with the signing secret.
C6_RoundTrip ==
    resp.op = "verify_token" =>
      /\ (resp.arg.token = token.jwt /\ token.jwt.jwt /\ token.expires_delta # None) =>
            /\ now < token.issued_at + token.expires_delta[1] =>
                  resp.res.value = str(token.subject)
            /\ now > token.issued_at + token.expires_delta[1] =>
                  resp.res.value = NoText
      /\ resp.arg.token \in ForeignTokens => resp.res.value = NoText

\* C6, the case reached: a token issued with a ttl was verified after issue
\* time + ttl.
C6_VerifiedAfterExpiry ==
    /\ resp.op = "verify_token"
    /\ resp.arg.token = token.jwt /\ token.jwt.jwt /\ token.expires_delta # None
    /\ now > token.issued_at + token.expires_delta[1]

-----------------------------------------------------------------------------
(* app/api/deps.py.  credentials is what HTTPBearer hands over: absent     *)
(* (no Authorization header) or the bearer token.                          *)

NoCredentials == [present |-> FALSE, credentials |-> NotAJwt]
Bearer(tok) == [present |-> TRUE, credentials |-> tok]

create_credentials_exception == HTTPException(401, "Could not validate credentials")

\* get_current_user with the inactive user refused like a bad token
get_current_user_inactive_401(S, credentials, t) ==
    IF ~credentials.present THEN HTTPException(403, "Not authenticated")
    ELSE
      LET user_id_str == verify_token(credentials.credentials, t)
          user_id == int(user_id_str)
      IN  IF user_id_str = NoText THEN create_credentials_exception
          ELSE IF user_id = None THEN create_credentials_exception
          ELSE IF get_user_by_id(S, user_id[1]) = None THEN create_credentials_exception
          ELSE IF ~Truthy(S.users[user_id[1]].is_active)
          THEN create_credentials_exception
          ELSE Return(user_id)

\* get_current_user: Return(Some(id)) of the user resolved, or the exception.
\* HTTPBearer() itself refuses a request without credentials.
get_current_user(S, credentials, t) ==
    IF ~credentials.present THEN HTTPException(403, "Not authenticated")
    ELSE
      LET user_id_str == verify_token(credentials.credentials, t)
          user_id == int(user_id_str)
      IN  IF user_id_str = NoText THEN create_credentials_exception
          ELSE IF user_id = None THEN create_credentials_exception
          ELSE IF get_user_by_id(S, user_id[1]) = None THEN create_credentials_exception
          ELSE IF ~Truthy(S.users[user_id[1]].is_active)
          THEN HTTPException(400, "Inactive user")
          ELSE Return(user_id)

\* get_current_superuser without its is_superuser test
get_current_superuser_unchecked(S, credentials, t) ==
    get_current_user(S, credentials, t)

get_current_superuser(S, credentials, t) ==
    LET current_user == get_current_user(S, credentials, t)
    IN  IF current_user.kind # "return" THEN current_user
        ELSE IF ~Truthy(S.users[current_user.value[1]].is_superuser)
        THEN HTTPException(403, "Not enough permissions")
        ELSE current_user

\* _get_optional_current_user without its is_active test
get_optional_current_user_any(S, credentials, t) ==
    IF ~credentials.present THEN None
    ELSE
      LET user_id_str == verify_token(credentials.credentials, t)
          user_id == int(user_id_str)
      IN  IF user_id_str = NoText THEN None
          ELSE IF user_id = None THEN None
          ELSE IF get_user_by_id(S, user_id[1]) = None THEN None
          ELSE user_id

\* _get_optional_current_user: Some(id) of the user resolved, or None
get_optional_current_user(S, credentials, t) ==
    IF ~credentials.present THEN None
    ELSE
      LET user_id_str == verify_token(credentials.credentials, t)
          user_id == int(user_id_str)
      IN  IF user_id_str = NoText THEN None
          ELSE IF user_id = None THEN None
          ELSE IF get_user_by_id(S, user_id[1]) = None
                  \/ ~Truthy(S.users[user_id[1]].is_active) THEN None
          ELSE user_id

-----------------------------------------------------------------------------
(* app/api/v1/endpoints and app/main.py: what the client receives.  A      *)
(* dependency that raises answers the request before the body and the      *)
(* query are validated and before the handler runs.                        *)

Response(status_code, detail, body) ==
    [kind |-> "response", status |-> status_code, detail |-> detail, value |-> body]

RequestValidationError == Response(422, "Unprocessable Entity", None)

\* an HTTPException keeps its status; global_exception_handler answers the rest
Raised(res) ==
    IF res.kind = "HTTPException" THEN Response(res.status, res.detail, None)
    ELSE Response(500, "Internal server error", None)

\* UserResponse(**user.dict()): hashed_password is not a field of the schema
UserResponseAccepts(user) ==
    /\ user.email # NULL
    /\ user.username # NoText
    /\ user.is_active # NULL
    /\ user.is_superuser # NULL

\* the whole stored record handed out
UserResponse_whole_record(user) == user

UserResponse(user) ==
    [f \in {"id", "email", "username", "full_name", "is_active", "is_superuser",
            "created_at", "updated_at"} |-> user[f]]

user_response(status_code, user) ==
    IF UserResponseAccepts(user) THEN Response(status_code, "", UserResponse(user))
    ELSE Raised(ValidationError)

\* ItemResponse(**item.dict()): the validators of ItemBase run again
ItemResponseAccepts(item) ==
    /\ item.title # NoText /\ ~title_rejected(item.title)
    /\ item.price # None /\ ~price_rejected(item.price)
    /\ item.status \in ItemStatus

ItemResponse(item) ==
    [item EXCEPT !.title = Strip(item.title), !.price = Some(round2(item.price[1]))]

\* UserService.get_all_users: the ids of the page
get_all_users(S, skip, limit) == Slice(values_order(DOMAIN S.users), skip, limit)

\* the page count rounded down
pages_of_rounded_down(total, size) == IF total > 0 THEN total \div size ELSE 1

\* math.ceil(total / size) if total > 0 else 1
pages_of(total, size) == IF total > 0 THEN (total + size - 1) \div size ELSE 1

\* the parameters a handler is called with
Params(credentials, current_user, user_id) ==
    [credentials |-> credentials, current_user |-> current_user, user_id |-> user_id]

-----------------------------------------------------------------------------
(* Requests to the user endpoints and to GET /items/.                      *)

\* Update bodies: the two flags each omitted or set, is_active also null; and
\* one body the schema rejects.
FlagUpdateData ==
    {p \in [fields_set : SUBSET {"is_active", "is_superuser"},
            email : {NULL}, username : {NoText}, full_name : {NULL},
            is_active : {NULL} \cup Bools,
            is_superuser : {NULL} \cup Bools] :
        /\ "is_active" \notin p.fields_set <=> p.is_active = NULL
        /\ "is_superuser" \notin p.fields_set <=> p.is_superuser = NULL}
    \cup {[fields_set |-> {"is_active"}, email |-> NULL, username |-> NoText,
           full_name |-> NULL, is_active |-> NULL, is_superuser |-> NULL]}
    \cup {[fields_set |-> {"username"}, email |-> NULL, username |-> ShortUsername,
           full_name |-> NULL, is_active |-> NULL, is_superuser |-> NULL]}

\* the "sub" claims of the tokens presented: ids 1 and 2, an id no user has,
\* text that is no number, and no "sub" claim at all
TokenSubjects == {<<"1">>, <<"2">>, <<"9">>, <<"a","b","c">>, NoText}

SignedTokens ==
    {jwt_encode(sub, Minutes(ACCESS_TOKEN_EXPIRE_MINUTES), SECRET_KEY, ALGORITHM) :
        sub \in TokenSubjects}

ExpiredToken == jwt_encode(<<"1">>, -2, SECRET_KEY, ALGORITHM)

\* the Authorization headers a request may carry; token.jwt is what login issued
RequestCredentials ==
    {NoCredentials} \cup
    {Bearer(tok) : tok \in ForeignTokens \cup SignedTokens \cup {ExpiredToken, token.jwt}}

\* page and size of GET /items/
PageSizes == {<<1, 10>>, <<2, 2>>, <<0, 10>>}

RegisterUser(data, salt) ==
    /\ resp = NoCall
    /\ next_id <= MaxUserId
    /\ LET params == [credentials |-> NoCredentials, current_user |-> None,
                      user_id |-> None, data |-> data]
           out == create_user(UserStore, UserCreate(data), now, salt)
       IN  IF ~UserCreateAccepts(data)
           THEN /\ resp' = Call("POST /users/register", params, RequestValidationError)
                /\ UNCHANGED userVars
           ELSE /\ SetUserStore(out.S)
                /\ resp' = Call("POST /users/register", params,
                                IF out.res.kind = "return"
                                THEN user_response(201, out.S.users[out.res.value[1]])
                                ELSE Raised(out.res))
    /\ UNCHANGED <<itemVars, now, token, tasks>>

Login(username, password) ==
    /\ resp = NoCall
    /\ LET params == [credentials |-> NoCredentials, current_user |-> None,
                      user_id |-> None, username |-> username, password |-> password]
           user == authenticate_user(UserStore, username, password)
           access_token_expires == Some(Minutes(ACCESS_TOKEN_EXPIRE_MINUTES))
           access_token == create_access_token(IntSubject(user[1]), access_token_expires, now)
       IN  IF user = None
           THEN /\ resp' = Call("POST /users/login", params,
                                Raised(HTTPException(401, "Incorrect username or password")))
                /\ UNCHANGED token
           ELSE /\ token' = [jwt |-> access_token, subject |-> IntSubject(user[1]),
                             expires_delta |-> access_token_expires, issued_at |-> now]
                /\ resp' = Call("POST /users/login", params,
                                Response(200, "",
                                         [access_token |-> access_token,
                                          token_type |-> "bearer",
                                          expires_in |-> ACCESS_TOKEN_EXPIRE_MINUTES * 60]))
    /\ UNCHANGED <<userVars, itemVars, now, tasks>>

GetCurrentUserInfo(credentials) ==
    /\ resp = NoCall
    /\ LET current_user == get_current_user(UserStore, credentials, now)
       IN  IF current_user.kind # "return"
           THEN resp' = Call("GET /users/me", Params(credentials, None, None),
                             Raised(current_user))
           ELSE resp' = Call("GET /users/me", Params(credentials, current_user.value, None),
                             user_response(200, users[current_user.value[1]]))
    /\ UNCHANGED <<userVars, itemVars, now, token, tasks>>

UpdateCurrentUser(credentials, data) ==
    /\ resp = NoCall
    /\ LET current_user == get_current_user(UserStore, credentials, now)
           params == Params(credentials, current_user.value, None)
           out == update_user(UserStore, current_user.value[1], UserUpdate(data), now)
       IN  IF current_user.kind # "return"
           THEN /\ resp' = Call("PUT /users/me", params, Raised(current_user))
                /\ UNCHANGED userVars
           ELSE IF ~UserUpdateAccepts(data)
           THEN /\ resp' = Call("PUT /users/me", params, RequestValidationError)
                /\ UNCHANGED userVars
           ELSE /\ SetUserStore(out.S)
                /\ resp' = Call("PUT /users/me", params,
                                IF out.res.kind # "return" THEN Raised(out.res)
                                ELSE IF out.res.value = None
                                THEN Raised(HTTPException(404, "User not found"))
                                ELSE user_response(200, out.S.users[out.res.value[1]]))
    /\ UNCHANGED <<itemVars, now, token, tasks>>

GetUsers(credentials, skip, limit) ==
    /\ resp = NoCall
    /\ LET current_user == get_current_superuser(UserStore, credentials, now)
           params == Params(credentials, current_user.value, None)
           page == get_all_users(UserStore, skip, limit)
       IN  IF current_user.kind # "return"
           THEN resp' = Call("GET /users/", params, Raised(current_user))
           ELSE IF skip < 0 \/ limit < 1 \/ limit > 1000
           THEN resp' = Call("GET /users/", params, RequestValidationError)
           ELSE IF \E i \in DOMAIN page : ~UserResponseAccepts(users[page[i]])
           THEN resp' = Call("GET /users/", params, Raised(ValidationError))
           ELSE resp' = Call("GET /users/", params,
                             Response(200, "",
                                      [i \in DOMAIN page |-> UserResponse(users[page[i]])]))
    /\ UNCHANGED <<userVars, itemVars, now, token, tasks>>

GetUser(credentials, user_id) ==
    /\ resp = NoCall
    /\ LET current_user == get_current_superuser(UserStore, credentials, now)
           params == Params(credentials, current_user.value, Some(user_id))
       IN  IF current_user.kind # "return"
           THEN resp' = Call("GET /users/{user_id}", params, Raised(current_user))
           ELSE IF get_user_by_id(UserStore, user_id) = None
           THEN resp' = Call("GET /users/{user_id}", params,
                             Raised(HTTPException(404, "User not found")))
           ELSE resp' = Call("GET /users/{user_id}", params,
                             user_response(200, users[user_id]))
    /\ UNCHANGED <<userVars, itemVars, now, token, tasks>>

UpdateUserById(credentials, user_id, data) ==
    /\ resp = NoCall
    /\ LET current_user == get_current_superuser(UserStore, credentials, now)
           params == Params(credentials, current_user.value, Some(user_id))
           out == update_user(UserStore, user_id, UserUpdate(data), now)
       IN  IF current_user.kind # "return"
           THEN /\ resp' = Call("PUT /users/{user_id}", params, Raised(current_user))
                /\ UNCHANGED userVars
           ELSE IF ~UserUpdateAccepts(data)
           THEN /\ resp' = Call("PUT /users/{user_id}", params, RequestValidationError)
                /\ UNCHANGED userVars
           ELSE /\ SetUserStore(out.S)
                /\ resp' = Call("PUT /users/{user_id}", params,
                                IF out.res.kind # "return" THEN Raised(out.res)
                                ELSE IF out.res.value = None
                                THEN Raised(HTTPException(404, "User not found"))
                                ELSE user_response(200, out.S.users[user_id]))
    /\ UNCHANGED <<itemVars, now, token, tasks>>

DeleteUserById(credentials, user_id) ==
    /\ resp = NoCall
    /\ LET current_user == get_current_superuser(UserStore, credentials, now)
           params == Params(credentials, current_user.value, Some(user_id))
           out == delete_user(UserStore, user_id)
       IN  IF current_user.kind # "return"
           THEN /\ resp' = Call("DELETE /users/{user_id}", params, Raised(current_user))
                /\ UNCHANGED userVars
           ELSE /\ SetUserStore(out.S)
                /\ resp' = Call("DELETE /users/{user_id}", params,
                                IF out.res.kind # "return" THEN Raised(out.res)
                                ELSE IF out.res.value = Some(0)
                                THEN Raised(HTTPException(404, "User not found"))
                                ELSE Response(204, "", None))
    /\ UNCHANGED <<itemVars, now, token, tasks>>

\* GET /items/: authentication is optional
GetItems(credentials, page, size, status) ==
    /\ resp = NoCall
    /\ LET current_user == get_optional_current_user(UserStore, credentials, now)
           params == [credentials |-> credentials, current_user |-> current_user,
                      page |-> page, size |-> size, status |-> status]
           skip == (page - 1) * size
           found == get_items(ItemStore, skip, size, status, None)
           total == get_item_count(ItemStore, status, None)
       IN  IF page < 1 \/ size < 1 \/ size > 100
           THEN resp' = Call("GET /items/", params, RequestValidationError)
           ELSE IF \E i \in DOMAIN found : ~ItemResponseAccepts(items[found[i]])
           THEN resp' = Call("GET /items/", params, Raised(ValidationError))
           ELSE resp' = Call("GET /items/", params,
                             Response(200, "",
                                      [items |-> [i \in DOMAIN found |->
                                                    ItemResponse(items[found[i]])],
                                       total |-> total, page |-> page, size |-> size,
                                       pages |-> pages_of(total, size)]))
    /\ UNCHANGED <<userVars, itemVars, now, token, tasks>>

NextAuth ==
    \* registration bodies: anybody may ask for is_superuser
    \/ \E data \in [email : Emails, username : {TestUsername, ShortUsername},
                    full_name : {"Test User"}, password : {TestPassword},
                    is_active : Bools, is_superuser : Bools],
          salt \in Salts : RegisterUser(data, salt)
    \/ \E username \in {AdminUsername, TestUsername},
          password \in {AdminPassword, TestPassword} : Login(username, password)
    \/ \E credentials \in RequestCredentials : GetCurrentUserInfo(credentials)
    \/ \E credentials \in RequestCredentials, data \in FlagUpdateData :
         UpdateCurrentUser(credentials, data)
    \/ \E credentials \in RequestCredentials, sl \in {<<0, 100>>, <<1, 1>>, <<0, 0>>} :
         GetUsers(credentials, sl[1], sl[2])
    \/ \E credentials \in RequestCredentials, user_id \in UserIds :
         GetUser(credentials, user_id)
    \/ \E credentials \in RequestCredentials, user_id \in UserIds, data \in FlagUpdateData :
         UpdateUserById(credentials, user_id, data)
    \/ \E credentials \in RequestCredentials, user_id \in UserIds :
         DeleteUserById(credentials, user_id)
    \/ \E credentials \in RequestCredentials, ps \in PageSizes, status \in {NULL, "active"} :
         GetItems(credentials, ps[1], ps[2], status)
    \/ Deliver

SpecAuth == Init /\ [][NextAuth]_vars

-----------------------------------------------------------------------------
(* Claims about authentication.  A token is judged against the state the   *)
(* request meets: the store and the clock before the step.                 *)

MandatoryOps == {"GET /users/me", "PUT /users/me", "GET /users/",
                 "GET /users/{user_id}", "PUT /users/{user_id}",
                 "DELETE /users/{user_id}"}
SuperuserOps == {"GET /users/", "GET /users/{user_id}", "PUT /users/{user_id}",
                 "DELETE /users/{user_id}"}
OptionalOps == {"GET /items/"}

\* not a JWT, not signed with the secret and algorithm, or without a subject
TokenInvalid(tok) ==
    ~tok.jwt \/ tok.key # SECRET_KEY \/ tok.alg # ALGORITHM \/ tok.sub = NoText
\* its expiry instant lies before the clock reading (in half seconds)
TokenExpired(tok) == tok.exp # None /\ tok.exp[1] * 2 < now
SubjectNotNumeric(tok) == int(tok.sub) = None
NamesNoLiveUser(tok) == int(tok.sub) # None /\ int(tok.sub)[1] \notin DOMAIN users

BadToken(tok) ==
    TokenInvalid(tok) \/ TokenExpired(tok) \/ SubjectNotNumeric(tok) \/ NamesNoLiveUser(tok)

\* the user a good token names
NamedUser(tok) == users[int(tok.sub)[1]]

QueryValid(arg) == arg.page >= 1 /\ arg.size >= 1 /\ arg.size <= 100

C8_NonSuperuserForbidden ==
    [][ (/\ resp = NoCall
         /\ resp'.op \in SuperuserOps
         /\ resp'.arg.credentials.present
         /\ ~BadToken(resp'.arg.credentials.credentials)
         /\ NamedUser(resp'.arg.credentials.credentials).is_active = PyTrue
         /\ NamedUser(resp'.arg.credentials.credentials).is_superuser = PyFalse) =>
          /\ resp'.res.status = 403
          /\ UNCHANGED userVars
      ]_vars

\* C8, the case reached: an active non-superuser asked to delete a live user
\* and was refused.
C8_DeleteRefused ==
    /\ resp.op = "DELETE /users/{user_id}"
    /\ resp.res.status = 403
    /\ resp.arg.user_id # None /\ resp.arg.user_id[1] \in DOMAIN users
    /\ resp.arg.credentials.present
    /\ ~BadToken(resp.arg.credentials.credentials)
    /\ NamedUser(resp.arg.credentials.credentials).is_active = PyTrue
    /\ NamedUser(resp.arg.credentials.credentials).is_superuser = PyFalse

\* the request carries a good token naming a live user whose is_active is false
ByInactiveUser(arg) ==
    /\ arg.credentials.present
    /\ ~BadToken(arg.credentials.credentials)
    /\ NamedUser(arg.credentials.credentials).is_active = PyFalse

\* C9: a mandatory-path request whose valid token names a live user with
\* is_active false is answered 400 'Inactive user'; the same token on the
\* optional path resolves to no user and the request proceeds.
C9_InactiveUser ==
    [][ (resp = NoCall /\ resp'.op \in MandatoryOps \cup OptionalOps
                       /\ ByInactiveUser(resp'.arg)) =>
          IF resp'.op \in MandatoryOps
          THEN resp'.res.status = 400 /\ resp'.res.detail = "Inactive user"
          ELSE /\ resp'.arg.current_user = None
               /\ QueryValid(resp'.arg) => resp'.res.status = 200
      ]_vars

\* C9, the case reached: an inactive user's token was presented to GET /items/.
C9_InactiveOnOptionalPath ==
    /\ resp.op = "GET /items/"
    /\ ByInactiveUser(resp.arg)
    /\ resp.res.status = 200

-----------------------------------------------------------------------------
(* The user store under a narrower choice of requests: every field of a    *)
(* patch omitted or set, the indexed fields also null, at most two fields  *)
(* in one patch.                                                           *)

MaxPatchFields == 2


PatchFields == {"email", "username", "full_name", "is_active", "is_superuser"}

PatchData ==
    {p \in [fields_set : {fs \in SUBSET PatchFields : Cardinality(fs) <= MaxPatchFields},
            email : {NULL, TestEmail},
            username : {NoText, TestUsername},
            full_name : {NULL, "New Name"},
            is_active : {NULL, PyFalse},
            is_superuser : {NULL, PyTrue}] :
        /\ "email" \notin p.fields_set => p.email = NULL
        /\ "username" \notin p.fields_set => p.username = NoText
        /\ "full_name" \in p.fields_set <=> p.full_name # NULL
        /\ "is_active" \in p.fields_set <=> p.is_active # NULL
        /\ "is_superuser" \in p.fields_set <=> p.is_superuser # NULL}

NextUserOps ==
    \/ \E data \in [email : Emails, username : {TestUsername},
                    full_name : {"Test User"}, password : {TestPassword},
                    is_active : {PyTrue}, is_superuser : {PyFalse}],
          salt \in Salts : CreateUser(data, salt)
    \/ \E user_id \in UserIds, data \in PatchData : UpdateUser(user_id, data)
    \/ \E user_id \in UserIds : DeleteUser(user_id)
    \/ Deliver

SpecUserOps == Init /\ [][NextUserOps]_vars

-----------------------------------------------------------------------------
(* Claims about the user store operations.                                 *)

\* C11: every successful create_user returns an id strictly greater than every
\* id returned before it, deletions notwithstanding: the id returned is the
\* counter's value, above every live id, the counter moves past it at once and
\* no step ever lowers the counter.
C11_IdsIncrease ==
    [][ /\ next_id' >= next_id
        /\ (resp = NoCall /\ resp'.op = "create_user" /\ resp'.res.kind = "return") =>
              /\ resp'.res.value = Some(next_id)
              /\ next_id' > next_id
              /\ \A id \in DOMAIN users : id < next_id
      ]_vars

\* C11, the case reached: a user was created after the seeded admin had been
\* deleted, and got id 2, not the freed id 1.
C11_CreatedAfterDelete ==
    /\ resp.op = "create_user"
    /\ resp.res = Return(Some(2))
    /\ 1 \notin DOMAIN users

\* C12: create_user with an email a live user holds (and a different username)
\* fails with 400 'Email already registered'; with a username a live user
\* holds and an email nobody holds it fails with 400 'Username already taken';
\* in both cases the store and the indexes stay as they were.
C12_CreateConflict ==
    [][ (resp = NoCall /\ resp'.op = "create_user" /\ UserCreateAccepts(resp'.arg.data)) =>
          LET d == UserCreate(resp'.arg.data) IN
          /\ (\E u \in DOMAIN users :
                users[u].email = d.email /\ users[u].username # d.username) =>
                /\ resp'.res = HTTPException(400, "Email already registered")
                /\ UNCHANGED userVars
          /\ (/\ \E u \in DOMAIN users :
                   users[u].username = d.username /\ users[u].email # d.email
              /\ \A u \in DOMAIN users : users[u].email # d.email) =>
                /\ resp'.res = HTTPException(400, "Username already taken")
                /\ UNCHANGED userVars
      ]_vars

\* C12, the case reached: a creation was refused because a live user holds
\* the email asked for.
C12_EmailRefused ==
    /\ resp.op = "create_user"
    /\ resp.res = HTTPException(400, "Email already registered")
    /\ \E u \in DOMAIN users : users[u].email = resp.arg.data.email

-----------------------------------------------------------------------------
(* Registration, login and GET /users/me in sequence.                      *)


NextSignup ==
    \/ Advance
    \/ \E data \in [email : {TestEmail}, username : RawUsernames,
                    full_name : {"Test User"}, password : {TestPassword, WeakPassword},
                    is_active : Bools, is_superuser : {PyFalse}],
          salt \in Salts : RegisterUser(data, salt)
    \/ \E username \in RawUsernames \cup {AdminUsername}, password \in Passwords :
         Login(username, password)
    \/ \E credentials \in {NoCredentials, Bearer(token.jwt)} :
         GetCurrentUserInfo(credentials)
    \/ Deliver

SpecSignup == Init /\ [][NextSignup]_vars

\* C13: for every registration accepted (201) with is_active true, a login
\* with the same username string and the same password string is answered
\* 200 with an access token, and GET /users/me with that token is answered
\* 200 with the record of the user just registered.  The login and the GET
\* are those the handlers compute in the state the registration leaves.
C13_RegisterLoginMe ==
    [][ (resp = NoCall /\ resp'.op = "POST /users/register"
                       /\ resp'.res.status = 201
                       /\ resp'.arg.data.is_active = PyTrue) =>
          LET S == [users |-> users', by_email |-> user_by_email',
                    by_username |-> user_by_username', next_id |-> next_id']
              user == authenticate_user(S, resp'.arg.data.username,
                                        resp'.arg.data.password)
              access_token ==
                  create_access_token(IntSubject(user[1]),
                                      Some(Minutes(ACCESS_TOKEN_EXPIRE_MINUTES)), now')
              me == get_current_user(S, Bearer(access_token), now')
          IN  /\ user # None
              /\ access_token.jwt
              /\ me = Return(Some(resp'.res.value.id))
              /\ user_response(200, S.users[me.value[1]]) =
                    Response(200, "", resp'.res.value)
      ]_vars

\* C13, the case reached: a registration with a mixed-case username was
\* accepted with is_active true.
C13_MixedCaseRegistered ==
    /\ resp.op = "POST /users/register"
    /\ resp.res.status = 201
    /\ resp.arg.data.is_active = PyTrue
    /\ resp.arg.data.username = MixedCaseUsername

-----------------------------------------------------------------------------
(* Claims about the user endpoints.                                        *)

\* C14: PUT /users/me changes at most email, username, full_name, is_active
\* and updated_at of the caller's own record: the caller's id, is_superuser,
\* hashed_password and created_at and every other user's record are unchanged.
C14_PutMeFrame ==
    [][ (resp = NoCall /\ resp'.op = "PUT /users/me" /\ resp'.arg.current_user # None) =>
          LET me == resp'.arg.current_user[1] IN
          /\ DOMAIN users' = DOMAIN users
          /\ \A u \in DOMAIN users \ {me} : users'[u] = users[u]
          /\ \A f \in {"id", "is_superuser", "hashed_password", "created_at"} :
                users'[me][f] = users[me][f]
      ]_vars

\* C14, the case reached: PUT /users/me was answered 200 for a caller who is
\* not the seeded admin.
C14_PutMeAnswered ==
    /\ resp.op = "PUT /users/me"
    /\ resp.res.status = 200
    /\ resp.arg.current_user = Some(2)

OutwardUserFields == {"id", "email", "username", "full_name", "is_active",
                      "is_superuser", "created_at", "updated_at"}

\* C15: no response of a user endpoint carries a stored password hash: a user
\* in a response has exactly the fields id, email, username, full_name,
\* is_active, is_superuser, created_at and updated_at; a login response has
\* the token, its type and its lifetime; other responses have no body.
C15_NoHashInResponses ==
    /\ resp.op \in {"POST /users/register", "GET /users/me", "PUT /users/me",
                    "GET /users/{user_id}", "PUT /users/{user_id}"} =>
          IF resp.res.status \in {200, 201}
          THEN DOMAIN resp.res.value = OutwardUserFields
          ELSE resp.res.value = None
    /\ resp.op = "GET /users/" =>
          IF resp.res.status = 200
          THEN \A i \in DOMAIN resp.res.value :
                  DOMAIN resp.res.value[i] = OutwardUserFields
          ELSE resp.res.value = None
    /\ resp.op = "POST /users/login" =>
          IF resp.res.status = 200
          THEN /\ DOMAIN resp.res.value = {"access_token", "token_type", "expires_in"}
               /\ DOMAIN resp.res.value.access_token = {"jwt", "key", "alg", "sub", "exp"}
          ELSE resp.res.value = None
    /\ resp.op = "DELETE /users/{user_id}" => resp.res.value = None

\* C15, the case reached: GET /users/ listed two users.
C15_TwoUsersListed ==
    /\ resp.op = "GET /users/"
    /\ resp.res.status = 200
    /\ Len(resp.res.value) = 2

-----------------------------------------------------------------------------
(* Claims about the item store operations.                                 *)

\* C16: create_item with any ItemCreate the schema accepts and the actor's id
\* always succeeds: exactly one item is added, its id the next item id, its
\* owner the actor, its title, description, price and status those of the
\* request, and its created_at equal to its updated_at.
C16_CreateAlwaysSucceeds ==
    [][ (resp = NoCall /\ resp'.op = "create_item"
                       /\ ItemCreateAccepts(resp'.arg.data)) =>
          LET item_create == ItemCreate(resp'.arg.data)
              id == item_next_id
          IN  /\ resp'.res = Return(Some(id))
              /\ DOMAIN items' = DOMAIN items \cup {id}
              /\ id \notin DOMAIN items
              /\ \A other \in DOMAIN items : items'[other] = items[other]
              /\ items'[id].owner_id = resp'.arg.user_id
              /\ items'[id].title = item_create.title
              /\ items'[id].description = item_create.description
              /\ items'[id].price = item_create.price
              /\ items'[id].status = item_create.status
              /\ items'[id].created_at = items'[id].updated_at
      ]_vars

\* C16, the case reached: the schema accepted a price that rounds to 0.00.
C16_TinyPriceAccepted ==
    /\ resp.op = "create_item"
    /\ ItemCreateAccepts(resp.arg.data)
    /\ round2(resp.arg.data.price[1]) = 0

\* C17: update_user(id, patch) applies exactly the fields present in the
\* patch: a field the patch omits keeps its value (updated_at excepted), a
\* field it names holds the patch's value once the call has returned the user,
\* and no other user's record changes.
C17_PatchFrame ==
    [][ (resp = NoCall /\ resp'.op = "update_user"
                       /\ UserUpdateAccepts(resp'.arg.data)) =>
          LET id == resp'.arg.user_id
              p == UserUpdate(resp'.arg.data)
          IN  /\ DOMAIN users' = DOMAIN users
              /\ \A u \in DOMAIN users \ {id} : users'[u] = users[u]
              /\ id \in DOMAIN users =>
                   /\ \A f \in DOMAIN users[id] \ (p.fields_set \cup {"updated_at"}) :
                         users'[id][f] = users[id][f]
                   /\ resp'.res.kind = "return" =>
                         \A f \in p.fields_set : users'[id][f] = p[f]
      ]_vars

\* C17, the case reached: a patch naming only full_name was applied while
\* another user was live.
C17_OneFieldPatched ==
    /\ resp.op = "update_user"
    /\ resp.res.kind = "return" /\ resp.res.value # None
    /\ resp.arg.data.fields_set = {"full_name"}
    /\ Cardinality(DOMAIN users) = 2

\* C18: update_user that supplies an email (or username) succeeds when the new
\* value is the user's own or is held by no other live user, and fails with
\* 400 when another live user holds it; after a successful change the old key
\* is absent from the index and the new key maps to the user's id.
C18_UpdateMovesIndex ==
    [][ (resp = NoCall /\ resp'.op = "update_user"
                       /\ UserUpdateAccepts(resp'.arg.data)
                       /\ resp'.arg.user_id \in DOMAIN users) =>
          LET id == resp'.arg.user_id
              p == UserUpdate(resp'.arg.data)
              email_supplied == Truthy(p.email)
              username_supplied == TruthyText(p.username)
              email_taken == email_supplied /\ \E u \in DOMAIN users \ {id} :
                                                 users[u].email = p.email
              username_taken == username_supplied /\ \E u \in DOMAIN users \ {id} :
                                                 users[u].username = p.username
          IN  /\ (email_taken \/ username_taken) =>
                    /\ resp'.res.kind = "HTTPException" /\ resp'.res.status = 400
                    /\ UNCHANGED userVars
              /\ ((email_supplied \/ username_supplied)
                     /\ ~email_taken /\ ~username_taken) =>
                    /\ resp'.res = Return(Some(id))
                    /\ email_supplied =>
                         /\ p.email \in DOMAIN user_by_email'
                         /\ user_by_email'[p.email] = id
                         /\ users[id].email # p.email =>
                               users[id].email \notin DOMAIN user_by_email'
                    /\ username_supplied =>
                         /\ p.username \in DOMAIN user_by_username'
                         /\ user_by_username'[p.username] = id
                         /\ users[id].username # p.username =>
                               users[id].username \notin DOMAIN user_by_username'
      ]_vars

\* C18, the case reached: an update changed a user's email and returned.
C18_EmailMoved ==
    /\ resp.op = "update_user"
    /\ resp.res.kind = "return" /\ resp.res.value # None
    /\ "email" \in resp.arg.data.fields_set
    /\ resp.arg.data.email = TestEmail
    /\ user_by_email = [e \in {TestEmail} |-> resp.arg.user_id]

-----------------------------------------------------------------------------
(* Listing and counting items while items are created and deleted and the  *)
(* clock moves.                                                            *)

\* ItemService.get_items called directly
ListItems(skip, limit, status, owner_id) ==
    /\ resp = NoCall
    /\ resp' = Call("get_items",
                    [skip |-> skip, limit |-> limit, status |-> status,
                     owner_id |-> owner_id],
                    Return(get_items(ItemStore, skip, limit, status, owner_id)))
    /\ UNCHANGED <<userVars, itemVars, now, token, tasks>>

\* ItemService.get_item_count called directly
CountItems(status, owner_id) ==
    /\ resp = NoCall
    /\ resp' = Call("get_item_count", [status |-> status, owner_id |-> owner_id],
                    Return(Some(get_item_count(ItemStore, status, owner_id))))
    /\ UNCHANGED <<userVars, itemVars, now, token, tasks>>

\* GET /items/my-items
GetMyItems(credentials, page, size) ==
    /\ resp = NoCall
    /\ LET current_user == get_current_user(UserStore, credentials, now)
           params == [credentials |-> credentials, current_user |-> current_user.value,
                      page |-> page, size |-> size, status |-> NULL]
           skip == (page - 1) * size
           found == get_items(ItemStore, skip, size, NULL, current_user.value)
           total == get_item_count(ItemStore, NULL, current_user.value)
       IN  IF current_user.kind # "return"
           THEN resp' = Call("GET /items/my-items", params, Raised(current_user))
           ELSE IF page < 1 \/ size < 1 \/ size > 100
           THEN resp' = Call("GET /items/my-items", params, RequestValidationError)
           ELSE IF \E i \in DOMAIN found : ~ItemResponseAccepts(items[found[i]])
           THEN resp' = Call("GET /items/my-items", params, Raised(ValidationError))
           ELSE resp' = Call("GET /items/my-items", params,
                             Response(200, "",
                                      [items |-> [i \in DOMAIN found |->
                                                    ItemResponse(items[found[i]])],
                                       total |-> total, page |-> page, size |-> size,
                                       pages |-> pages_of(total, size)]))
    /\ UNCHANGED <<userVars, itemVars, now, token, tasks>>

\* Items are created by either owner and deleted while the clock moves;
\* get_items is called with skips and limits inside and beyond the store,
\* each status filter, and no owner or the id of a user (ids start at 1);
\* GET /items/my-items is called without a token and with one just issued to
\* the admin.
NextList ==
    \/ Advance
    \/ \E data \in [title : {PaddedTitle}, description : {NULL}, price : {Some(19999)},
                    status : {"active", "archived"}],
          owner_id \in ActingUserIds : CreateItem(data, owner_id)
    \/ \E item_id \in ItemIds, user_id \in ActingUserIds : DeleteItem(item_id, user_id)
    \/ \E skip \in {0, 1, 3}, limit \in {1, 2, 100},
          status \in {NULL} \cup ItemStatus,
          owner_id \in {None} \cup {Some(u) : u \in ActingUserIds} :
         ListItems(skip, limit, status, owner_id)
    \/ \E status \in {NULL} \cup ItemStatus,
          owner_id \in {None} \cup {Some(u) : u \in ActingUserIds} :
         CountItems(status, owner_id)
    \/ \E ps \in PageSizes, status \in {NULL} \cup ItemStatus :
         GetItems(NoCredentials, ps[1], ps[2], status)
    \/ \E credentials \in {NoCredentials,
                           Bearer(create_access_token(IntSubject(1), None, now))},
          ps \in PageSizes :
         GetMyItems(credentials, ps[1], ps[2])
    \/ Deliver

SpecList == Init /\ [][NextList]_vars

\* the ids of the items a filter keeps
Kept(status, owner_id) ==
    {id \in DOMAIN items :
        /\ status # NULL => items[id].status = status
        /\ owner_id # None => items[id].owner_id = owner_id[1]}

\* x is listed before y: created later, or created at the same time and inserted earlier
ListedBefore(x, y) ==
    \/ items[x].created_at > items[y].created_at
    \/ items[x].created_at = items[y].created_at /\ x < y

\* the kept items in listing order
Listing(status, owner_id) ==
    LET kept == Kept(status, owner_id)
    IN  [i \in 1..Cardinality(kept) |->
            CHOOSE x \in kept : Cardinality({y \in kept : ListedBefore(y, x)}) = i - 1]

\* C19: get_items(skip, limit, status, owner) returns exactly the slice
\* [skip, skip + limit) of the items whose status and owner equal the given
\* filters, ordered by created_at descending, ties in insertion order.
C19_ListIsFilteredSortedSlice ==
    resp.op = "get_items" =>
        LET a == resp.arg
            full == Listing(a.status, a.owner_id)
            last == IF a.skip + a.limit < Len(full) THEN a.skip + a.limit ELSE Len(full)
            count == IF last > a.skip THEN last - a.skip ELSE 0
        IN  /\ resp.res.kind = "return"
            /\ Len(resp.res.value) = count
            /\ \A i \in 1..count : resp.res.value[i] = full[a.skip + i]

\* a later-created item of the filtered owner is listed first and the slice starts past it
C19_NewestSkipped ==
    /\ resp.op = "get_items"
    /\ resp.arg.skip = 1
    /\ resp.arg.limit = 2
    /\ resp.arg.owner_id = Some(1)
    /\ resp.arg.status = "active"
    /\ Len(resp.res.value) = 2
    /\ resp.res.value[1] < resp.res.value[2]
    /\ \E id \in DOMAIN items :
         /\ items[id].created_at > items[resp.res.value[1]].created_at
         /\ items[id].owner_id = 1
         /\ items[id].status = "active"

\* ceil(total / size) when total > 0, and 1 when total = 0
PagesFor(total, size) ==
    IF total = 0 THEN 1
    ELSE CHOOSE k \in 1..total : k * size >= total /\ (k - 1) * size < total

\* C20: get_item_count equals the number of items get_items returns for the
\* same filter with skip 0 and an unbounded limit; the list endpoints report
\* pages = ceil(total / size) when total > 0 and 1 when total = 0, so 25
\* items at size 10 give 3 pages.
C20_CountAndPages ==
    /\ resp.op = "get_item_count" =>
         /\ resp.res.kind = "return"
         /\ resp.res.value =
              Some(Len(get_items(ItemStore, 0, Cardinality(DOMAIN items) + 1,
                                 resp.arg.status, resp.arg.owner_id)))
    /\ (resp.op \in {"GET /items/", "GET /items/my-items"} /\ resp.res.status = 200) =>
         LET owner_id == IF resp.op = "GET /items/" THEN None ELSE resp.arg.current_user
             total == Cardinality(Kept(resp.arg.status, owner_id))
         IN  /\ resp.res.value.total = total
             /\ resp.res.value.pages = PagesFor(total, resp.arg.size)
    /\ pages_of(25, 10) = 3
    /\ pages_of(0, 10) = 1

\* the caller's items do not fill a whole number of pages
C20_PartialLastPage ==
    /\ resp.op = "GET /items/my-items"
    /\ resp.res.status = 200
    /\ resp.arg.size = 2
    /\ resp.res.value.total = 3
    /\ resp.res.value.pages = 2

-----------------------------------------------------------------------------
(* Both stores together while the clock moves: users are created, patched  *)
(* and deleted, items are created, patched, deleted and their status set   *)
(* through PATCH /items/{item_id}/status.                                  *)

\* PATCH /items/{item_id}/status. The parameter named status hides the
\* imported fastapi status module, so building the 404 raises AttributeError.
UpdateItemStatus(credentials, item_id, status) ==
    /\ resp = NoCall
    /\ LET current_user == get_current_user(UserStore, credentials, now)
           params == [credentials |-> credentials, current_user |-> current_user.value,
                      item_id |-> item_id, status |-> status]
           item_update == ItemUpdate([fields_set |-> {"status"}, title |-> NoText,
                                      description |-> NULL, price |-> None,
                                      status |-> status])
           out == update_item(ItemStore, item_id, item_update, current_user.value[1], now)
       IN  IF current_user.kind # "return"
           THEN /\ resp' = Call("PATCH /items/{item_id}/status", params,
                                Raised(current_user))
                /\ UNCHANGED itemVars
           ELSE /\ SetItemStore(out.S)
                /\ resp' = Call("PATCH /items/{item_id}/status", params,
                                IF out.res.kind # "return" THEN Raised(out.res)
                                ELSE IF out.res.value = None
                                THEN Raised([kind |-> "AttributeError", status |-> 0,
                                             detail |-> "", value |-> None])
                                ELSE IF ~ItemResponseAccepts(out.S.items[item_id])
                                THEN Raised(ValidationError)
                                ELSE Response(200, "", ItemResponse(out.S.items[item_id])))
    /\ UNCHANGED <<userVars, now, token, tasks>>

\* Users are created with a free or a held email, patched to the admin's
\* email and either user is deleted; items are created
\* with prices 0.001, 0.125, 19.999 and the refused 0, patched by title (null),
\* price (2.675) or status and deleted by either user; the status endpoint is
\* called with a token just issued to user 1 or user 2.
NextStores ==
    \/ Advance
    \/ \E data \in [email : Emails, username : {TestUsername},
                    full_name : {"Test User"}, password : {TestPassword},
                    is_active : {PyTrue}, is_superuser : {PyFalse}],
          salt \in Salts : CreateUser(data, salt)
    \/ \E user_id \in {2, 3},
          data \in [fields_set : {{"email"}}, email : {AdminEmail},
                    username : {NoText}, full_name : {NULL},
                    is_active : {NULL}, is_superuser : {NULL}] :
         UpdateUser(user_id, data)
    \/ \E user_id \in {1, 2} : DeleteUser(user_id)
    \/ \E data \in [title : {PaddedTitle}, description : {NULL},
                    price : {Some(v) : v \in {1, 125, 19999, 0}},
                    status : {"active"}],
          owner_id \in ActingUserIds : CreateItem(data, owner_id)
    \/ \E item_id \in {4, 99}, user_id \in ActingUserIds,
          data \in {p \in [fields_set : {{}, {"title"}, {"price"}, {"status"}},
                           title : {NoText}, description : {NULL},
                           price : {None, Some(2675)},
                           status : {NULL, "active"}] :
                      /\ "price" \in p.fields_set <=> p.price # None
                      /\ "status" \in p.fields_set <=> p.status # NULL} :
         UpdateItem(item_id, data, user_id)
    \/ \E item_id \in {4, 99}, user_id \in ActingUserIds : DeleteItem(item_id, user_id)
    \/ \E user_id \in {1, 2}, item_id \in {4, 99}, status \in ItemStatus :
         UpdateItemStatus(Bearer(create_access_token(IntSubject(user_id), None, now)),
                          item_id, status)
    \/ Deliver

SpecStores == Init /\ [][NextStores]_vars

-----------------------------------------------------------------------------
(* Claims about both stores.                                               *)

\* update_item returned the item
ItemUpdated(r) == r.op = "update_item" /\ r.res.kind = "return" /\ r.res.value # None

\* C21: whenever a successful update_item leaves title, description, price
\* and status of the item all equal to their previous values, the item's
\* updated_at is also left unchanged.
C21_UpdatedAtOnlyOnChange ==
    [][ (resp = NoCall /\ ItemUpdated(resp')) =>
          LET old == items[resp'.arg.item_id]
              new == items'[resp'.arg.item_id]
          IN  (/\ new.title = old.title
               /\ new.description = old.description
               /\ new.price = old.price
               /\ new.status = old.status) => new.updated_at = old.updated_at
      ]_vars

\* C21, the case reached: update_item returned an item that holds the title
\* and status it was created with and whose updated_at was refreshed.
C21_RefreshedAsCreated ==
    /\ ItemUpdated(resp)
    /\ LET item == items[resp.arg.item_id]
       IN  /\ item.title = Strip(PaddedTitle)
           /\ item.status = "active"
           /\ item.price = Some(20000)
           /\ item.updated_at = now
           /\ item.updated_at > item.created_at

\* a price in thousandths rounded half-up to hundredths
HalfUp2(m) == ((m + 5) \div 10) * 10

\* C22: on create and update every price <= 0 is rejected with a validation
\* error and nothing is stored, and every accepted price is stored as the
\* input rounded half-up to 2 decimal places (19.999 is stored as 20.0). The
\* one price the update bodies carry is 2.675.
C22_PriceStoredHalfUp ==
    [][ /\ (resp = NoCall /\ resp'.op = "create_item") =>
             LET v == resp'.arg.data.price[1]
             IN  IF v <= 0
                 THEN resp'.res.kind = "ValidationError" /\ UNCHANGED itemVars
                 ELSE resp'.res.kind = "return" =>
                        items'[resp'.res.value[1]].price = Some(HalfUp2(v))
        /\ (resp = NoCall /\ ItemUpdated(resp')) =>
             LET old == items[resp'.arg.item_id]
                 new == items'[resp'.arg.item_id]
             IN  (new.price # old.price /\ new.price # None) =>
                    new.price = Some(HalfUp2(2675))
        /\ HalfUp2(19999) = 20000
        /\ ItemCreate([title |-> PaddedTitle, description |-> NULL,
                       price |-> Some(19999), status |-> "active"]).price = Some(20000)
      ]_vars

\* C22, the case reached: an item was created from the price 0.125, which lies
\* halfway between 0.12 and 0.13.
C22_TieCreated ==
    /\ resp.op = "create_item"
    /\ resp.res.kind = "return"
    /\ resp.arg.data.price = Some(125)
    /\ resp.res.value[1] \in DOMAIN items

-----------------------------------------------------------------------------
(* Registrations handled concurrently on one event loop. A request is a    *)
(* task; the loop runs one task until it suspends, and only then may       *)
(* another task run. tasks[t].pc is the statement the task executes next.  *)

\* an await before this statement gives the loop away
Suspends_before_take_id(pc) == pc \in {"request", "take_id", "done"}

\* The statements before which the task is suspended: a task waits for its
\* request body and for its response to be sent. register_user awaits
\* create_user, whose body holds no await, so none of its statements is one.
Suspends(pc) == pc \in {"request", "done"}

\* One statement of POST /users/register run by task t.
RegisterStep(t) ==
    /\ tasks[t].pc # "done"
    /\ \A u \in DOMAIN tasks \ {t} : tasks[u].suspended
    /\ LET task == tasks[t]
           user_create == task.data
           goto(pc, user_id, res) ==
               tasks' = [tasks EXCEPT ![t] = [@ EXCEPT !.pc = pc,
                                                      !.suspended = Suspends(pc),
                                                      !.user_id = user_id,
                                                      !.res = res]]
       IN  CASE task.pc = "request" ->
                  /\ \E data \in [email : {TestEmail, "ann@example.com"},
                                  username : {TestUsername, MixedCaseUsername, AdminUsername},
                                  full_name : {"Test User"}, password : {TestPassword},
                                  is_active : {PyTrue}, is_superuser : {PyFalse}] :
                       tasks' = [tasks EXCEPT ![t] =
                                   [@ EXCEPT !.pc = "check_email",
                                             !.suspended = Suspends("check_email"),
                                             !.data = UserCreate(data)]]
                  /\ UNCHANGED userVars
             [] task.pc = "check_email" ->
                  /\ IF user_create.email \in DOMAIN user_by_email
                     THEN goto("done", None,
                               Raised(HTTPException(400, "Email already registered")))
                     ELSE goto("check_username", None, task.res)
                  /\ UNCHANGED userVars
             [] task.pc = "check_username" ->
                  /\ IF user_create.username \in DOMAIN user_by_username
                     THEN goto("done", None,
                               Raised(HTTPException(400, "Username already taken")))
                     ELSE goto("take_id", None, task.res)
                  /\ UNCHANGED userVars
             [] task.pc = "take_id" ->
                  /\ goto("insert", Some(next_id), task.res)
                  /\ next_id' = next_id + 1
                  /\ UNCHANGED <<users, user_by_email, user_by_username>>
             [] task.pc = "insert" ->
                  \E salt \in Salts :
                    LET user_id == task.user_id[1]
                        user == [id |-> user_id,
                                 email |-> user_create.email,
                                 username |-> user_create.username,
                                 full_name |-> user_create.full_name,
                                 hashed_password |->
                                     get_password_hash(user_create.password, salt),
                                 is_active |-> user_create.is_active,
                                 is_superuser |-> user_create.is_superuser,
                                 created_at |-> now,
                                 updated_at |-> now]
                    IN  /\ users' = Put(users, user_id, user)
                        /\ user_by_email' = Put(user_by_email, user_create.email, user_id)
                        /\ user_by_username' =
                               Put(user_by_username, user_create.username, user_id)
                        /\ goto("done", task.user_id, user_response(201, user))
                        /\ UNCHANGED next_id
    /\ UNCHANGED <<itemVars, now, token, resp>>

NextRegister == \E t \in DOMAIN tasks : RegisterStep(t)

SpecRegister == Init /\ [][NextRegister]_vars

\* task t was answered 201
Registered(t) == tasks[t].pc = "done" /\ tasks[t].res.status = 201

\* C23: with control passing between requests only where a coroutine
\* suspends, the uniqueness check, id allocation and insertion of create_user
\* run as one atomic step: no request is between its check and its insertion
\* while another request runs, two concurrent registrations with the same
\* email or the same username never both succeed, and no two obtain the same
\* id.
C23_RegistrationsAtomic ==
    \A t \in DOMAIN tasks : \A u \in DOMAIN tasks \ {t} :
        /\ tasks[t].pc \in {"check_email", "check_username", "take_id", "insert"} =>
              tasks[u].pc \in {"request", "done"}
        /\ (Registered(t) /\ Registered(u)) =>
              /\ tasks[t].data.email # tasks[u].data.email
              /\ tasks[t].data.username # tasks[u].data.username
              /\ tasks[t].user_id # tasks[u].user_id

\* C23, the case reached: of two registrations with the same email one was
\* accepted and the other refused.
C23_SecondRefused ==
    \E t \in DOMAIN tasks, u \in DOMAIN tasks :
        /\ Registered(t)
        /\ tasks[u].pc = "done"
        /\ tasks[u].res.status = 400
        /\ tasks[u].data.email = tasks[t].data.email
        /\ tasks[u].data.username # tasks[t].data.username

\* C24: item status has no transition restrictions: for every item and every
\* pair of statuses s, t in {active, inactive, archived}, the owner's status
\* update on an item whose status is s succeeds and leaves it with status t,
\* changing no other field of the item except updated_at.
C24_FreeStatusTransitions ==
    [][ (/\ resp = NoCall
         /\ resp'.op = "PATCH /items/{item_id}/status"
         /\ resp'.arg.current_user # None
         /\ resp'.arg.item_id \in DOMAIN items
         /\ items[resp'.arg.item_id].owner_id = resp'.arg.current_user[1]
         /\ items[resp'.arg.item_id].status \in ItemStatus) =>
          LET old == items[resp'.arg.item_id]
              new == items'[resp'.arg.item_id]
          IN  /\ resp'.res.status = 200
              /\ new.status = resp'.arg.status
              /\ \A f \in DOMAIN old \ {"status", "updated_at"} : new[f] = old[f]
      ]_vars

\* C24, the case reached: the owner moved an item from active to archived.
C24_Archived ==
    /\ resp.op = "PATCH /items/{item_id}/status"
    /\ resp.res.status = 200
    /\ resp.arg.status = "archived"
    /\ resp.res.value.status = "archived"
    /\ resp.res.value.owner_id = resp.arg.current_user[1]
    /\ resp.res.value.updated_at > resp.res.value.created_at

-----------------------------------------------------------------------------
(* Claims about users that were deleted or deactivated.                    *)

\* a token signed with the secret, not expired, whose subject is the id of a
\* user that was deleted: an id below the counter that is not in the store
NamesDeletedUser(tok) ==
    /\ ~TokenInvalid(tok)
    /\ ~TokenExpired(tok)
    /\ int(tok.sub) # None
    /\ int(tok.sub)[1] >= 1
    /\ int(tok.sub)[1] < next_id
    /\ int(tok.sub)[1] \notin DOMAIN users

\* C25: a user id is never assigned twice, even after deletion (the counter
\* never goes down, every live id lies below it and a new user gets the
\* counter's value), so a token issued for user U never authenticates as any
\* other user: after U is deleted every request carrying U's unexpired token
\* is answered 401 on the mandatory path, with the stores unchanged, and is
\* anonymous on the optional path, whatever users are created afterwards.
C25_DeletedUsersTokenDead ==
    [][ /\ next_id' >= next_id
        /\ \A id \in DOMAIN users : id < next_id
        /\ \A id \in DOMAIN users' \ DOMAIN users : id = next_id /\ next_id' > id
        /\ (resp = NoCall /\ resp'.op \in MandatoryOps \cup OptionalOps
                          /\ resp'.arg.credentials.present
                          /\ NamesDeletedUser(resp'.arg.credentials.credentials)) =>
              IF resp'.op \in MandatoryOps
              THEN resp'.res.status = 401 /\ UNCHANGED <<userVars, itemVars, token>>
              ELSE resp'.arg.current_user = None
      ]_vars

\* C25, the case reached: user 1 was deleted, user 2 is live, and a request
\* with the token issued for user 1 was refused.
C25_OldTokenRefused ==
    /\ resp.op \in MandatoryOps
    /\ resp.arg.credentials =
         Bearer(jwt_encode(<<"1">>, Minutes(ACCESS_TOKEN_EXPIRE_MINUTES),
                           SECRET_KEY, ALGORITHM))
    /\ resp.res.status = 401
    /\ 1 \notin DOMAIN users
    /\ 2 \in DOMAIN users

\* the call recorded in r did not succeed
StoreCallFailed(r) ==
    \/ r.op = "create_user" /\ r.res.kind = "HTTPException"
    \/ r.op = "update_user" /\ (r.res.kind = "HTTPException" \/ r.res = Return(None))
    \/ r.op = "delete_user" /\ r.res = Return(Some(0))
    \/ r.op = "update_item" /\ (Forbidden(r.res) \/ r.res = Return(None))
    \/ r.op = "delete_item" /\ (Forbidden(r.res) \/ r.res = Return(Some(0)))
    \/ r.op = "create_item" /\ r.res.kind # "return"

\* C26: every store operation that does not succeed (Conflict on create_user
\* or update_user, not-found on update_user or delete_user, NotFound or
\* Forbidden on update_item or delete_item, a failed create_item) leaves both
\* stores, both user indexes and both next-id counters exactly as they were
\* before the call.
C26_FailedCallChangesNothing ==
    [][ (resp = NoCall /\ StoreCallFailed(resp')) => UNCHANGED <<userVars, itemVars>>
      ]_vars

\* C26, the case reached: a create_item whose body the schema accepted failed.
C26_CreateItemFailed ==
    /\ resp.op = "create_item"
    /\ resp.res.kind = "ValidationError"
    /\ ItemCreateAccepts(resp.arg.data)

-----------------------------------------------------------------------------
(* Items and their owners: requests to the item endpoints carry the token  *)
(* of a user, users are registered and deleted.                            *)

\* PUT /items/{item_id}
UpdateItemById(credentials, item_id, data) ==
    /\ resp = NoCall
    /\ LET current_user == get_current_user(UserStore, credentials, now)
           params == [credentials |-> credentials, current_user |-> current_user.value,
                      item_id |-> item_id, status |-> data.status]
           out == update_item(ItemStore, item_id, ItemUpdate(data),
                              current_user.value[1], now)
       IN  IF current_user.kind # "return"
           THEN /\ resp' = Call("PUT /items/{item_id}", params, Raised(current_user))
                /\ UNCHANGED itemVars
           ELSE IF ~ItemUpdateAccepts(data)
           THEN /\ resp' = Call("PUT /items/{item_id}", params, RequestValidationError)
                /\ UNCHANGED itemVars
           ELSE /\ SetItemStore(out.S)
                /\ resp' = Call("PUT /items/{item_id}", params,
                                IF out.res.kind # "return" THEN Raised(out.res)
                                ELSE IF out.res.value = None
                                THEN Raised(HTTPException(404, "Item not found"))
                                ELSE IF ~ItemResponseAccepts(out.S.items[item_id])
                                THEN Raised(ValidationError)
                                ELSE Response(200, "", ItemResponse(out.S.items[item_id])))
    /\ UNCHANGED <<userVars, now, token, tasks>>

\* DELETE /items/{item_id}
DeleteItemById(credentials, item_id) ==
    /\ resp = NoCall
    /\ LET current_user == get_current_user(UserStore, credentials, now)
           params == [credentials |-> credentials, current_user |-> current_user.value,
                      item_id |-> item_id, status |-> NULL]
           out == delete_item(ItemStore, item_id, current_user.value[1])
       IN  IF current_user.kind # "return"
           THEN /\ resp' = Call("DELETE /items/{item_id}", params, Raised(current_user))
                /\ UNCHANGED itemVars
           ELSE /\ SetItemStore(out.S)
                /\ resp' = Call("DELETE /items/{item_id}", params,
                                IF out.res.kind # "return" THEN Raised(out.res)
                                ELSE IF out.res.value = Some(0)
                                THEN Raised(HTTPException(404, "Item not found"))
                                ELSE Response(204, "", None))
    /\ UNCHANGED <<userVars, now, token, tasks>>

\* A user registers, users are deleted, a live user creates an item, and the
\* item endpoints are called with a token just issued to user 1, 2 or 3 on the first
\* item created after construction, while the clock moves.
NextOwners ==
    \/ Advance
    \/ \E data \in [email : {TestEmail}, username : {TestUsername},
                    full_name : {"Test User"}, password : {TestPassword},
                    is_active : {PyTrue}, is_superuser : {PyFalse}],
          salt \in Salts : CreateUser(data, salt)
    \/ \E user_id \in {1, 2} : DeleteUser(user_id)
    \/ \E data \in [title : {PaddedTitle}, description : {NULL},
                    price : {Some(19999)}, status : {"active"}],
          owner_id \in UserIds :
         /\ owner_id \in DOMAIN users
         /\ CreateItem(data, owner_id)
    \/ \E user_id \in {1, 2, 3} :
         LET credentials == Bearer(create_access_token(IntSubject(user_id), None, now))
         IN  \/ \E data \in [fields_set : {{"status"}}, title : {NoText},
                              description : {NULL}, price : {None},
                              status : {"archived"}] :
                   UpdateItemById(credentials, 4, data)
             \/ DeleteItemById(credentials, 4)
             \/ UpdateItemStatus(credentials, 4, "inactive")
    \/ Deliver

SpecOwners == Init /\ [][NextOwners]_vars

\* C28: once a live user's is_active is false, every login attempt for that
\* user and every mandatory-auth request carrying a token of that user fails
\* (login 401, the request 400) and changes nothing, until a superuser sets is_active
\* back to true: the only step after which the user is active again is another
\* user's, a superuser's, PUT /users/{user_id} on that user.
C28_InactiveUntilSuperuserActs ==
    [][ \A u \in DOMAIN users :
          ~Truthy(users[u].is_active) =>
            /\ (resp = NoCall /\ resp'.op = "POST /users/login"
                              /\ resp'.arg.username = users[u].username) =>
                  /\ resp'.res.status = 401
                  /\ UNCHANGED <<userVars, itemVars, token>>
            /\ (resp = NoCall /\ resp'.op \in MandatoryOps
                              /\ resp'.arg.credentials.present
                              /\ ~BadToken(resp'.arg.credentials.credentials)
                              /\ int(resp'.arg.credentials.credentials.sub) = Some(u)) =>
                  /\ resp'.res.status = 400
                  /\ UNCHANGED <<userVars, itemVars, token>>
            /\ (u \in DOMAIN users' /\ Truthy(users'[u].is_active)) =>
                  /\ resp'.op = "PUT /users/{user_id}"
                  /\ resp'.arg.user_id = Some(u)
                  /\ resp'.arg.current_user # None
                  /\ resp'.arg.current_user # Some(u)
                  /\ users[resp'.arg.current_user[1]].is_superuser = PyTrue
      ]_vars

\* C28, the case reached: a user who is not active logged in with the right
\* password and was refused.
C28_InactiveLoginRefused ==
    /\ resp.op = "POST /users/login"
    /\ resp.res.status = 401
    /\ \E u \in DOMAIN users :
         /\ users[u].username = resp.arg.username
         /\ users[u].is_active = PyFalse
         /\ verify_password(resp.arg.password, users[u].hashed_password)

-----------------------------------------------------------------------------
(* Claims about items and their owners.                                    *)

C29_ItemIdentityFixed ==
    [][ /\ \A id \in DOMAIN items \cap DOMAIN items' :
             /\ items'[id].id = items[id].id
             /\ items'[id].owner_id = items[id].owner_id
             /\ items'[id].created_at = items[id].created_at
        /\ (resp = NoCall /\ resp'.op \in {"PUT /items/{item_id}", "DELETE /items/{item_id}",
                                           "PATCH /items/{item_id}/status"}) =>
             /\ \A id \in DOMAIN items \ {resp'.arg.item_id} :
                  id \in DOMAIN items' /\ items'[id] = items[id]
             /\ DOMAIN items' \subseteq DOMAIN items
             /\ item_next_id' = item_next_id
        /\ item_next_id' >= item_next_id
        /\ \A id \in DOMAIN items : id < item_next_id /\ items[id].id = id
        /\ \A id \in DOMAIN items' \ DOMAIN items : id = item_next_id /\ item_next_id' > id
      ]_vars

\* C29, the case reached: the owner set the status of an item some time after
\* creating it, and the item was answered with its owner and creation time.
C29_StatusSetLater ==
    /\ resp.op = "PATCH /items/{item_id}/status"
    /\ resp.res.status = 200
    /\ resp.res.value.id = resp.arg.item_id
    /\ resp.res.value.owner_id = 2
    /\ resp.res.value.status = "inactive"
    /\ resp.res.value.created_at > 0
    /\ resp.res.value.updated_at > resp.res.value.created_at

-----------------------------------------------------------------------------
(* Claims about the lifetime written into a credential.                    *)

\* C30: create_access_token(subject, expires_delta) encodes the expiry issue
\* time + expires_delta whenever expires_delta is supplied, for every duration
\* including zero, and the default lifetime only when it is omitted; a token
\* issued with a zero or negative lifetime is never accepted by verify_token.
C30_SuppliedLifetimeEncoded ==
    token.jwt.jwt =>
      /\ token.expires_delta # None =>
            token.jwt.exp = Some(SecondsOf(token.issued_at + token.expires_delta[1]))
      /\ token.expires_delta = None =>
            token.jwt.exp =
              Some(SecondsOf(token.issued_at + Minutes(ACCESS_TOKEN_EXPIRE_MINUTES)))
      /\ ( /\ resp.op = "verify_token"
           /\ resp.arg.token = token.jwt
           /\ token.expires_delta # None
           /\ token.expires_delta[1] <= 0 ) => resp.res.value = NoText

\* C30, the case reached: a token issued with a lifetime of zero was handed to
\* verify_token.
C30_ZeroLifetimeVerified ==
    /\ token.jwt.jwt
    /\ token.expires_delta = Some(0)
    /\ resp.op = "verify_token"
    /\ resp.arg.token = token.jwt

====
